---------------------------- MODULE Spec2Model ----------------------------
(***************************************************************************)
(* State-machine model of the retrieval service of AppiT-Pro:              *)
(*   - ReciprocalRankFusion.fuse_results   (retrieval_service/fts_manager) *)
(*   - NeuralGraphMemory                   (retrieval_service/graph_memory)*)
(*   - RAGOrchestrator.hybrid_retrieve     (retrieval_service/rag_orchestr)*)
(*                                                                         *)
(* Python dicts are functions whose domain is the set of keys present, so  *)
(* that dict.get(key, default) and a KeyError are both expressible.  A     *)
(* Python list of dicts is a sequence; the dict at a position is one       *)
(* object, and a write through any reference to it is a write at that      *)
(* position.  Floating point scores are kept as exact rationals over a     *)
(* common denominator (see ScoreDen).                                      *)
(***************************************************************************)
EXTENDS Integers, Sequences, FiniteSets, TLC

VARIABLES
    vector_results,   \* fuse_results argument: list of result dicts (vector channel)
    fuzzy_results,    \* fuse_results argument: list of result dicts (fuzzy channel)
    weights,          \* fuse_results argument: weights mapping, or None
    fused_calls,      \* the lists returned by the successive fuse_results calls
    graph,            \* NeuralGraphMemory.graph (a networkx DiGraph)
    inserted,         \* history: node ids that were passed to add_node
    clock,            \* datetime.now()
    last_call,        \* the last NeuralGraphMemory call: name, arguments, outcome
    walk_call,        \* the last reasoning_walk call: arguments and returned list
    retrieve_call,    \* the last hybrid_retrieve call: arguments, collaborators, outcome
    search,           \* one _bfs_search call in progress: arguments and loop variables
    loop,             \* the asyncio event loop of the service: its tasks and who runs
    grok,             \* a GrokAPIClient and the chat_completion call in progress
    vad               \* a VoiceActivityDetector and the last process_audio_chunk call

vars == <<vector_results, fuzzy_results, weights, fused_calls,
          graph, inserted, clock, last_call, walk_call, retrieve_call,
          search, loop, grok, vad>>

fuse_vars == <<vector_results, fuzzy_results, weights, fused_calls>>
graph_vars == <<graph, inserted, clock, last_call>>
other_vars == <<search, loop, grok, vad>>

(***************************************************************************)
(* Bounds of the model.                                                    *)
(***************************************************************************)
MaxLen == 2          \* longest result list given to fuse_results
MaxCalls == 2        \* fuse_results calls made on the same two lists

\* Python's None where a dict is expected (a record, so that it compares with dicts)
None == [none |-> TRUE]
NoExc == "none"

(***************************************************************************)
(* Python dict helpers.                                                    *)
(***************************************************************************)
EmptyDict == <<>>

Get(d, key, default) == IF key \in DOMAIN d THEN d[key] ELSE default

SetItem(d, key, value) ==
    [x \in (DOMAIN d) \cup {key} |-> IF x = key THEN value ELSE d[x]]

Range(s) == {s[i] : i \in DOMAIN s}

RECURSIVE SumOver(_, _)
SumOver(S, f) ==
    IF S = {} THEN 0
    ELSE LET x == CHOOSE y \in S : TRUE IN f[x] + SumOver(S \ {x}, f)

(***************************************************************************)
(* ReciprocalRankFusion                                                    *)
(***************************************************************************)
\* self.k, set by RAGOrchestrator.__init__ and the constructor default
RRF_K == 60

\* Scores are rationals: weight / (k + rank + 1) with weight in tenths.  They
\* are kept as integers over the common denominator 10 * ScoreDen, where
\* ScoreDen is the product of the divisors k+1 .. k+MaxLen that can occur.
RECURSIVE DenUpTo(_, _)
DenUpTo(k, n) == IF n = 0 THEN 1 ELSE (k + n) * DenUpTo(k, n - 1)

ScoreDen == DenUpTo(RRF_K, MaxLen)

\* weights[s] / (self.k + rank + 1)
RrfScore(weight, k, rank) == weight * (ScoreDen \div (k + rank + 1))

\* if weights is None: weights = {"vector": 0.6, "fuzzy": 0.4}
DefaultWeights == [vector |-> 6, fuzzy |-> 4]

EffectiveWeights(w) == IF w = None THEN DefaultWeights ELSE w

\* rank as enumerate() gives it: the 0-based position in the list
RankOfStored(result, pos, field) == Get(result, field, pos - 1)

RankOf(result, pos, field) == pos - 1

\* doc_scores[doc_id] += rrf_score
AccumulateOverwrite(old, rrf_score) == rrf_score

AccumulateMax(old, rrf_score) == IF old > rrf_score THEN old ELSE rrf_score

Accumulate(old, rrf_score) == old + rrf_score

\* The running state of one fuse_results call: the two argument lists (whose
\* dicts the call writes to), doc_scores (with the insertion order of its
\* keys), doc_metadata (doc_id -> reference to the dict it aliases) and the
\* exception raised so far.
FuseStart(vec, fuz) ==
    [vec |-> vec, fuz |-> fuz, doc_scores |-> EmptyDict, order |-> <<>>,
     doc_metadata |-> EmptyDict, exc |-> NoExc]

Deref(st, ref) == IF ref[1] = "vector" THEN st.vec[ref[2]] ELSE st.fuz[ref[2]]

\* doc_metadata[doc_id][field] = value: a write to the aliased input dict
WriteRef(st, ref, field, value) ==
    IF ref[1] = "vector"
    THEN [st EXCEPT !.vec[ref[2]] = SetItem(@, field, value)]
    ELSE [st EXCEPT !.fuz[ref[2]] = SetItem(@, field, value)]

\* if doc_id not in doc_scores: doc_scores[doc_id] = 0; doc_metadata[doc_id] = result
FirstSeen(st, doc_id, ref) ==
    IF doc_id \in DOMAIN st.doc_scores THEN st
    ELSE [st EXCEPT !.doc_scores = SetItem(@, doc_id, 0),
                    !.order = Append(@, doc_id),
                    !.doc_metadata = SetItem(@, doc_id, ref)]

\* One iteration of "for rank, result in enumerate(vector_results)"
VectorStep(st, pos, w, k) ==
    LET result == st.vec[pos] IN
    IF "doc_id" \notin DOMAIN result \/ "vector" \notin DOMAIN w
    THEN [st EXCEPT !.exc = "KeyError"]
    ELSE LET doc_id == result["doc_id"]
             rank == RankOf(result, pos, "vector_rank")
             rrf_score == RrfScore(w["vector"], k, rank)
             s1 == FirstSeen(st, doc_id, <<"vector", pos>>)
             s2 == [s1 EXCEPT !.doc_scores[doc_id] = Accumulate(@, rrf_score)]
             ref == s2.doc_metadata[doc_id]
             s3 == WriteRef(s2, ref, "vector_rank", rank)
         IN  WriteRef(s3, ref, "vector_score", Get(s3.vec[pos], "score", 0))

\* One iteration of "for rank, result in enumerate(fuzzy_results)"
FuzzyStep(st, pos, w, k) ==
    LET result == st.fuz[pos] IN
    IF "doc_id" \notin DOMAIN result \/ "fuzzy" \notin DOMAIN w
    THEN [st EXCEPT !.exc = "KeyError"]
    ELSE LET doc_id == result["doc_id"]
             rank == RankOf(result, pos, "fuzzy_rank")
             rrf_score == RrfScore(w["fuzzy"], k, rank)
             s1 == FirstSeen(st, doc_id, <<"fuzzy", pos>>)
             s2 == [s1 EXCEPT !.doc_scores[doc_id] = Accumulate(@, rrf_score)]
             ref == s2.doc_metadata[doc_id]
             s3 == WriteRef(s2, ref, "fuzzy_rank", rank)
             s4 == WriteRef(s3, ref, "fuzzy_score", Get(s3.fuz[pos], "score", 0))
         IN  WriteRef(s4, ref, "fuzzy_type", Get(s4.fuz[pos], "type", ""))

RECURSIVE VectorLoop(_, _, _, _)
VectorLoop(st, pos, w, k) ==
    IF pos > Len(st.vec) \/ st.exc # NoExc THEN st
    ELSE VectorLoop(VectorStep(st, pos, w, k), pos + 1, w, k)

RECURSIVE FuzzyLoop(_, _, _, _)
FuzzyLoop(st, pos, w, k) ==
    IF pos > Len(st.fuz) \/ st.exc # NoExc THEN st
    ELSE FuzzyLoop(FuzzyStep(st, pos, w, k), pos + 1, w, k)

\* An insertion that puts a key before the keys of equal score
RECURSIVE InsertDescTiesFirst(_, _, _)
InsertDescTiesFirst(sorted, x, score) ==
    IF sorted = <<>> THEN <<x>>
    ELSE IF score[Head(sorted)] > score[x]
         THEN <<Head(sorted)>> \o InsertDescTiesFirst(Tail(sorted), x, score)
         ELSE <<x>> \o sorted

\* sorted(items, key=score, reverse=True): a stable sort, so keys with equal
\* scores keep their order in `order`
RECURSIVE InsertDesc(_, _, _)
InsertDesc(sorted, x, score) ==
    IF sorted = <<>> THEN <<x>>
    ELSE IF score[Head(sorted)] >= score[x]
         THEN <<Head(sorted)>> \o InsertDesc(Tail(sorted), x, score)
         ELSE <<x>> \o sorted

RECURSIVE SortedDesc(_, _)
SortedDesc(order, score) ==
    IF order = <<>> THEN <<>>
    ELSE InsertDesc(SortedDesc(SubSeq(order, 1, Len(order) - 1), score),
                    order[Len(order)], score)

\* result = doc_metadata[doc_id].copy(); result["fused_score"] = ...;
\* result["fusion_method"] = "RRF"
FusedRecord(st, doc_id) ==
    SetItem(SetItem(Deref(st, st.doc_metadata[doc_id]),
                    "fused_score", st.doc_scores[doc_id]),
            "fusion_method", "RRF")

\* fuse_results(vector_results, fuzzy_results, weights): the returned list
\* (out), the exception raised instead (exc), and the argument lists as the
\* call leaves them (vec, fuz).
FuseResults(vec, fuz, w, k) ==
    LET ew == EffectiveWeights(w)
        s1 == VectorLoop(FuseStart(vec, fuz), 1, ew, k)
        s2 == FuzzyLoop(s1, 1, ew, k)
        ranked == SortedDesc(s2.order, s2.doc_scores)
    IN  [exc |-> s2.exc,
         out |-> IF s2.exc # NoExc THEN <<>>
                 ELSE [i \in 1..Len(ranked) |-> FusedRecord(s2, ranked[i])],
         vec |-> s2.vec,
         fuz |-> s2.fuz]


(***************************************************************************)
(* networkx.DiGraph, as far as NeuralGraphMemory uses it.  Node and edge   *)
(* dicts keep insertion order, which is the iteration order of             *)
(* graph.nodes(data=True) and graph.neighbors(n).                          *)
(*   nodes  : the node ids, in insertion order                             *)
(*   attrs  : node id -> attribute dict                                    *)
(*   edges  : the <<source, target>> pairs, in insertion order             *)
(*   eattrs : <<source, target>> -> attribute dict                         *)
(***************************************************************************)
EmptyGraph == [nodes |-> <<>>, attrs |-> EmptyDict, edges |-> <<>>, eattrs |-> EmptyDict]

HasNode(G, n) == n \in Range(G.nodes)

HasEdge(G, u, v) == <<u, v>> \in Range(G.edges)

\* dict.update(other)
Update(d, other) ==
    [x \in (DOMAIN d) \cup (DOMAIN other) |-> IF x \in DOMAIN other THEN other[x] ELSE d[x]]

\* DiGraph.add_node(n, **attr): a new node gets attr, an existing one is updated
NxAddNode(G, n, attr) ==
    IF HasNode(G, n)
    THEN [G EXCEPT !.attrs[n] = Update(@, attr)]
    ELSE [G EXCEPT !.nodes = Append(@, n), !.attrs = SetItem(@, n, attr)]

\* DiGraph.add_edge(u, v, **attr): endpoints that are not nodes are created
\* with no attributes; an existing edge has its dict updated
NxAddEdge(G, u, v, attr) ==
    LET G1 == IF HasNode(G, u) THEN G ELSE NxAddNode(G, u, EmptyDict)
        G2 == IF HasNode(G1, v) THEN G1 ELSE NxAddNode(G1, v, EmptyDict)
    IN  IF HasEdge(G2, u, v)
        THEN [G2 EXCEPT !.eattrs[<<u, v>>] = Update(@, attr)]
        ELSE [G2 EXCEPT !.edges = Append(@, <<u, v>>),
                        !.eattrs = SetItem(@, <<u, v>>, attr)]

\* graph.neighbors(n): the successors of n, in the order their edges were added
Neighbors(G, n) ==
    LET out == SelectSeq(G.edges, LAMBDA e : e[1] = n)
    IN  [i \in DOMAIN out |-> out[i][2]]

(***************************************************************************)
(* NeuralGraphMemory: insertion.  Every operation returns the graph it     *)
(* leaves (graph), the value it returns (ret) and the exception it lets    *)
(* out to its caller (raised; NoExc when it returns normally).             *)
(* Edge weights are floats in [0, 1], kept in tenths.  A node's content is *)
(* kept as its sequence of lower-case words of three or more characters    *)
(* (re.findall(r'\b\w{3,}\b', ...)), and "keyword in content" as           *)
(* membership among these words.                                           *)
(***************************************************************************)
\* add_node(node_id, node_type, content): always returns True
add_node(G, node_id, node_type, content, now) ==
    [graph |-> NxAddNode(G, node_id,
                         [type |-> node_type, content |-> content, created_at |-> now]),
     ret |-> TRUE,
     raised |-> NoExc]

\* add_edge without the endpoint check of lines 99-101
add_edge_unchecked(G, source, target, edge_type, weight, now) ==
    [graph |-> NxAddEdge(G, source, target,
                         [type |-> edge_type, weight |-> weight, created_at |-> now]),
     ret |-> TRUE,
     raised |-> NoExc]

\* add_edge(source, target, edge_type, weight): logs a warning and returns
\* False when an endpoint is not a node, else adds the edge and returns True
add_edge(G, source, target, edge_type, weight, now) ==
    IF ~HasNode(G, source) \/ ~HasNode(G, target)
    THEN [graph |-> G, ret |-> FALSE, raised |-> NoExc]
    ELSE [graph |-> NxAddEdge(G, source, target,
                              [type |-> edge_type, weight |-> weight, created_at |-> now]),
          ret |-> TRUE,
          raised |-> NoExc]

\* f"file::{file_path}", f"{dep_type}::{dep_name}", f"conversation::{pilot_id}::{now}"
FileId(file_path) == "file::" \o file_path
DepId(dep) == dep[1] \o "::" \o dep[2]
ConvId(pilot_id, now) == "conversation::" \o pilot_id \o "::" \o ToString(now)

\* The loop "for dep_type, dep_name in dependencies" of add_code_file
RECURSIVE AddDependencies(_, _, _, _)
AddDependencies(G, file_id, dependencies, now) ==
    IF dependencies = <<>> THEN G
    ELSE LET dep == Head(dependencies)
             dep_id == DepId(dep)
             G1 == IF ~HasNode(G, dep_id)
                   THEN add_node(G, dep_id, dep[1], <<dep[2]>>, now).graph
                   ELSE G
             G2 == add_edge(G1, file_id, dep_id, "dependency", 10, now).graph
         IN  AddDependencies(G2, file_id, Tail(dependencies), now)

\* add_code_file(file_path, content, language); dependencies is what
\* analyze_code_dependencies extracts from the content
add_code_file(G, file_path, content, dependencies, now) ==
    LET file_id == FileId(file_path)
        G1 == add_node(G, file_id, "document", content, now).graph
    IN  [graph |-> AddDependencies(G1, file_id, dependencies, now),
         ret |-> file_id,
         raised |-> NoExc]

\* The loop "for doc_id in related_docs" of add_conversation_context
RECURSIVE LinkRelated(_, _, _, _)
LinkRelated(G, conv_id, related_docs, now) ==
    IF related_docs = <<>> THEN G
    ELSE LET doc_id == Head(related_docs)
             G1 == IF HasNode(G, doc_id)
                   THEN add_edge(G, conv_id, doc_id, "conversation", 8, now).graph
                   ELSE G
         IN  LinkRelated(G1, conv_id, Tail(related_docs), now)

\* matches = sum(1 for keyword in keywords if keyword in content)
Matches(keywords, content) ==
    Len(SelectSeq(keywords, LAMBDA w : w \in Range(content)))

\* _auto_link_conversation: the loop over graph.nodes(data=True), from position i
RECURSIVE AutoLink(_, _, _, _, _)
AutoLink(G, conv_id, keywords, i, now) ==
    IF i > Len(G.nodes) THEN G
    ELSE LET node_id == G.nodes[i]
             matches == Matches(keywords, Get(G.attrs[node_id], "content", <<>>))
             G1 == IF matches >= 2
                   THEN add_edge(G, conv_id, node_id, "conversation",
                                 (10 * matches) \div Len(keywords), now).graph
                   ELSE G
         IN  AutoLink(G1, conv_id, keywords, i + 1, now)

\* add_conversation_context(utterance, pilot_id, related_docs)
add_conversation_context(G, utterance, pilot_id, related_docs, now) ==
    LET conv_id == ConvId(pilot_id, now)
        G1 == add_node(G, conv_id, "conversation", utterance, now).graph
        G2 == LinkRelated(G1, conv_id, related_docs, now)
    IN  [graph |-> AutoLink(G2, conv_id, utterance, 1, now),
         ret |-> conv_id,
         raised |-> NoExc]

(***************************************************************************)
(* NeuralGraphMemory.reasoning_walk and its three strategies.              *)
(* composite_score is a rational; it is kept as an integer in units of     *)
(* 1 / (10 * WalkDen), where WalkDen is a common multiple of the divisors  *)
(* depth + 1 and len(path) that can occur.  PageRank scores and edge       *)
(* weights are in tenths.                                                  *)
(***************************************************************************)
MaxSteps == 2        \* largest max_steps given to reasoning_walk

RECURSIVE Factorial(_)
Factorial(n) == IF n <= 1 THEN 1 ELSE n * Factorial(n - 1)

WalkDen == Factorial(MaxSteps + 2)

\* _bfs_search stops once it has this many results
BFS_RESULT_LIMIT == 10

\* "while queue and len(results) < 10": the second conjunct
BfsMayContinue(results) == Len(results) < BFS_RESULT_LIMIT

\* The neighbours put at the head of the queue, which makes the search
\* depth-first
RECURSIVE EnqueueNeighborsInFront(_, _, _, _, _, _)
EnqueueNeighborsInFront(queue, nbrs, i, visited, depth, path) ==
    IF i > Len(nbrs) THEN queue
    ELSE EnqueueNeighborsInFront(
            IF nbrs[i] \notin visited
            THEN <<[node |-> nbrs[i], depth |-> depth + 1, path |-> path]>> \o queue
            ELSE queue,
            nbrs, i + 1, visited, depth, path)

\* The body of "for neighbor in self.graph.neighbors(current)"
RECURSIVE EnqueueNeighbors(_, _, _, _, _, _)
EnqueueNeighbors(queue, nbrs, i, visited, depth, path) ==
    IF i > Len(nbrs) THEN queue
    ELSE EnqueueNeighbors(
            IF nbrs[i] \notin visited
            THEN Append(queue, [node |-> nbrs[i], depth |-> depth + 1, path |-> path])
            ELSE queue,
            nbrs, i + 1, visited, depth, path)

\* The while loop of _bfs_search.  self.graph.nodes[current] raises KeyError
\* for a node that is not in the graph.
RECURSIVE BfsLoop(_, _, _, _, _, _, _)
BfsLoop(G, start_node, goal_type, max_steps, queue, visited, results) ==
    IF queue = <<>> \/ ~BfsMayContinue(results)
    THEN [exc |-> NoExc, results |-> results]
    ELSE LET current == Head(queue).node
             depth == Head(queue).depth
             path == Head(queue).path
             rest == Tail(queue)
         IN  IF depth > max_steps \/ current \in visited
             THEN BfsLoop(G, start_node, goal_type, max_steps, rest, visited, results)
             ELSE IF ~HasNode(G, current)
             THEN [exc |-> "KeyError", results |-> <<>>]
             ELSE LET visited1 == visited \cup {current}
                      node_type == Get(G.attrs[current], "type", "")
                      results1 ==
                          IF node_type = goal_type /\ current # start_node
                          THEN Append(results,
                                      [node_id |-> current,
                                       path |-> Append(path, current),
                                       depth |-> depth,
                                       method |-> "bfs",
                                       composite_score |-> (10 * WalkDen) \div (depth + 1)])
                          ELSE results
                      queue1 == EnqueueNeighbors(rest, Neighbors(G, current), 1, visited1,
                                                 depth, Append(path, current))
                  IN  BfsLoop(G, start_node, goal_type, max_steps, queue1, visited1, results1)

\* _bfs_search(start_node, goal_type, max_steps)
bfs_search(G, start_node, goal_type, max_steps) ==
    BfsLoop(G, start_node, goal_type, max_steps,
            <<[node |-> start_node, depth |-> 0, path |-> <<>>]>>, {}, <<>>)

\* nx.shortest_path_length(graph, source, target): the number of edges of a
\* shortest directed path, or -1 for NetworkXNoPath
RECURSIVE HopsFrom(_, _, _, _, _)
HopsFrom(G, frontier, seen, target, d) ==
    IF target \in frontier THEN d
    ELSE LET next == {e[2] : e \in {x \in Range(G.edges) : x[1] \in frontier}} \ seen
         IN  IF next = {} THEN -1
             ELSE HopsFrom(G, next, seen \cup next, target, d + 1)

ShortestPathLength(G, source, target) == HopsFrom(G, {source}, {source}, target, 0)

\* The goal-type nodes, in the order of graph.nodes(data=True)
GoalNodes(G, goal_type) ==
    SelectSeq(G.nodes, LAMBDA n : Get(G.attrs[n], "type", "None") = goal_type)

\* "if path_length <= max_steps" without the step budget
WithinStepsAlways(path_length, max_steps) == TRUE

\* "if path_length <= max_steps" of _pagerank_search
WithinSteps(path_length, max_steps) == path_length <= max_steps

\* The loop over the goal-type nodes of _pagerank_search
RECURSIVE PagerankLoop(_, _, _, _, _, _)
PagerankLoop(G, start_node, goals, max_steps, pagerank, goal_nodes) ==
    IF goals = <<>> THEN goal_nodes
    ELSE LET node_id == Head(goals)
             path_length == ShortestPathLength(G, start_node, node_id)
             found ==
                 IF path_length >= 0 /\ WithinSteps(path_length, max_steps)
                 THEN Append(goal_nodes,
                             [node_id |-> node_id,
                              pagerank_score |-> Get(pagerank, node_id, 0),
                              path_length |-> path_length,
                              method |-> "pagerank",
                              composite_score |->
                                  (Get(pagerank, node_id, 0) * WalkDen) \div (path_length + 1)])
                 ELSE goal_nodes
         IN  PagerankLoop(G, start_node, Tail(goals), max_steps, pagerank, found)

\* _pagerank_search(start_node, goal_type, max_steps); pagerank is what
\* nx.pagerank(self.graph, weight='weight') returns.  shortest_path_length
\* raises NodeNotFound for a source that is not in the graph, which the
\* method catches: it then returns [].
pagerank_search(G, start_node, goal_type, max_steps, pagerank) ==
    LET goals == GoalNodes(G, goal_type) IN
    IF goals # <<>> /\ ~HasNode(G, start_node) THEN <<>>
    ELSE PagerankLoop(G, start_node, goals, max_steps, pagerank, <<>>)

\* The directed paths without repeated nodes from source to target
RECURSIVE PathsFrom(_, _, _)
PathsFrom(G, path, target) ==
    LET last == path[Len(path)] IN
    IF last = target THEN {path}
    ELSE UNION {PathsFrom(G, Append(path, e[2]), target) :
                    e \in {x \in Range(G.edges) : x[1] = last /\ x[2] \notin Range(path)}}

\* path_weight: the sum of edge_data.get("weight", 0) along the path
RECURSIVE PathWeight(_, _)
PathWeight(G, path) ==
    IF Len(path) <= 1 THEN 0
    ELSE Get(G.eattrs[<<path[1], path[2]>>], "weight", 0) + PathWeight(G, Tail(path))

\* A path with the fewest edges, whatever its weight
FewestEdgesPath(G, source, target) ==
    LET paths == PathsFrom(G, <<source>>, target) IN
    IF paths = {} THEN <<>>
    ELSE CHOOSE p \in paths :
            \A q \in paths :
                \/ Len(p) < Len(q)
                \/ Len(p) = Len(q) /\ PathWeight(G, p) <= PathWeight(G, q)

\* nx.shortest_path(graph, source, target, weight='weight'): a path of least
\* total weight (Dijkstra), or <<>> for NetworkXNoPath.  Among paths of equal
\* weight networkx keeps the one it finds first; here the one with the fewest
\* edges is taken (with EdgeWeights no two paths between the same two of the
\* three walk nodes have equal weight).
WeightedShortestPath(G, source, target) ==
    LET paths == PathsFrom(G, <<source>>, target) IN
    IF paths = {} THEN <<>>
    ELSE CHOOSE p \in paths :
            \A q \in paths :
                \/ PathWeight(G, p) < PathWeight(G, q)
                \/ PathWeight(G, p) = PathWeight(G, q) /\ Len(p) <= Len(q)

\* The loop "for goal_node in goal_nodes" of _shortest_path_search
RECURSIVE ShortestLoop(_, _, _, _, _)
ShortestLoop(G, start_node, goals, max_steps, results) ==
    IF goals = <<>> THEN results
    ELSE LET goal_node == Head(goals)
             path == WeightedShortestPath(G, start_node, goal_node)
             found ==
                 IF path # <<>> /\ Len(path) <= max_steps + 1
                 THEN Append(results,
                             [node_id |-> goal_node,
                              path |-> path,
                              path_length |-> Len(path) - 1,
                              path_weight |-> PathWeight(G, path),
                              method |-> "shortest_path",
                              composite_score |-> (PathWeight(G, path) * WalkDen) \div Len(path)])
                 ELSE results
         IN  ShortestLoop(G, start_node, Tail(goals), max_steps, found)

\* _shortest_path_search(start_node, goal_type, max_steps); NodeNotFound for
\* a start node that is not in the graph is caught: it then returns [].
shortest_path_search(G, start_node, goal_type, max_steps) ==
    LET goals == GoalNodes(G, goal_type) IN
    IF goals # <<>> /\ ~HasNode(G, start_node) THEN <<>>
    ELSE ShortestLoop(G, start_node, goals, max_steps, <<>>)

\* "if start_node not in self.graph: continue" left out
SkipStartNever(G, start_node) == FALSE

\* "if start_node not in self.graph: continue"
SkipStart(G, start_node) == ~HasNode(G, start_node)

\* The loop "for start_node in start_nodes" of reasoning_walk: the pooled
\* results, or the exception a strategy let out
RECURSIVE PoolLoop(_, _, _, _, _, _)
PoolLoop(G, start_nodes, goal_type, max_steps, pagerank, results) ==
    IF start_nodes = <<>> THEN [exc |-> NoExc, results |-> results]
    ELSE LET start_node == Head(start_nodes) IN
         IF SkipStart(G, start_node)
         THEN PoolLoop(G, Tail(start_nodes), goal_type, max_steps, pagerank, results)
         ELSE LET bfs == bfs_search(G, start_node, goal_type, max_steps) IN
              IF bfs.exc # NoExc THEN [exc |-> bfs.exc, results |-> <<>>]
              ELSE PoolLoop(G, Tail(start_nodes), goal_type, max_steps, pagerank,
                            results \o bfs.results
                            \o pagerank_search(G, start_node, goal_type, max_steps, pagerank)
                            \o shortest_path_search(G, start_node, goal_type, max_steps))

\* A deduplication in which the last entry of every node_id is kept
RECURSIVE DedupeKeepsLast(_, _, _)
DedupeKeepsLast(results, seen, final_results) ==
    IF results = <<>> THEN final_results
    ELSE IF \E j \in 2..Len(results) : results[j]["node_id"] = Head(results)["node_id"]
         THEN DedupeKeepsLast(Tail(results), seen, final_results)
         ELSE DedupeKeepsLast(Tail(results), seen, Append(final_results, Head(results)))

\* "if result['node_id'] not in seen": the first entry of every node_id
RECURSIVE Dedupe(_, _, _)
Dedupe(results, seen, final_results) ==
    IF results = <<>> THEN final_results
    ELSE LET result == Head(results) IN
         IF result["node_id"] \in seen
         THEN Dedupe(Tail(results), seen, final_results)
         ELSE Dedupe(Tail(results), seen \cup {result["node_id"]},
                     Append(final_results, result))

\* final_results.sort(key=composite_score, reverse=True): stable
RECURSIVE InsertByScore(_, _)
InsertByScore(sorted, x) ==
    IF sorted = <<>> THEN <<x>>
    ELSE IF Get(Head(sorted), "composite_score", 0) >= Get(x, "composite_score", 0)
         THEN <<Head(sorted)>> \o InsertByScore(Tail(sorted), x)
         ELSE <<x>> \o sorted

\* The pooled order kept as it is, without the sort
SortByScoreSkipped(results) == results

RECURSIVE SortByScore(_)
SortByScore(results) ==
    IF results = <<>> THEN <<>>
    ELSE InsertByScore(SortByScore(SubSeq(results, 1, Len(results) - 1)),
                       results[Len(results)])

\* reasoning_walk(start_nodes, goal_type, max_steps): any exception is
\* logged and [] returned
reasoning_walk(G, start_nodes, goal_type, max_steps, pagerank) ==
    LET pool == PoolLoop(G, start_nodes, goal_type, max_steps, pagerank, <<>>) IN
    IF pool.exc # NoExc THEN <<>>
    ELSE SortByScore(Dedupe(pool.results, {}, <<>>))

(***************************************************************************)
(* Inputs of the fusion: result lists as the two search managers build     *)
(* them (faiss_manager.query_semantic, fts_manager._fts5_search), sorted   *)
(* best first.  The vector channel returns one dict per chunk, so a doc_id *)
(* can occur at several positions of a list.                               *)
(***************************************************************************)
Docs == {"d1", "d2", "d3"}
Scores == {1, 2}

VectorRecord(d, s) == [doc_id |-> d, score |-> s, chunk_text |-> "chunk"]
FuzzyRecord(d, s) == [doc_id |-> d, score |-> s, type |-> "fts5_exact", snippet |-> "snip"]

SeqsUpTo(S, n) == UNION {[1..m -> S] : m \in 0..n}

SortedBestFirst(l) == \A i \in 1..(Len(l) - 1) : l[i].score >= l[i + 1].score

VectorLists ==
    {l \in SeqsUpTo({VectorRecord(d, s) : d \in Docs, s \in Scores}, MaxLen) :
        SortedBestFirst(l)}

\* fuse_results reads no score of a fuzzy hit for ranking; one value is enough
FuzzyLists == SeqsUpTo({FuzzyRecord(d, 1) : d \in Docs}, MaxLen)

WeightChoices ==
    {None, [vector |-> 6, fuzzy |-> 4], [vector |-> 1, fuzzy |-> 1],
     [vector |-> 0, fuzzy |-> 5]}

(***************************************************************************)
(* Values of the variables a specification does not use.                   *)
(***************************************************************************)
NoCall == [op |-> "none"]

\* The objects a specification does not use
OthersIdle == search = NoCall /\ loop = NoCall /\ grok = NoCall /\ vad = NoCall

FuseIdle ==
    /\ vector_results = <<>>
    /\ fuzzy_results = <<>>
    /\ weights = None
    /\ fused_calls = <<>>

GraphIdle ==
    /\ graph = EmptyGraph
    /\ inserted = {}
    /\ clock = 0
    /\ last_call = NoCall

(***************************************************************************)
(* SpecFuse: fuse_results called repeatedly on the same two lists.         *)
(***************************************************************************)
InitFuse ==
    /\ vector_results \in VectorLists
    /\ fuzzy_results \in FuzzyLists
    /\ weights \in WeightChoices
    /\ fused_calls = <<>>
    /\ GraphIdle
    /\ OthersIdle
    /\ walk_call = NoCall
    /\ retrieve_call = NoCall

FuseCall ==
    /\ Len(fused_calls) < MaxCalls
    /\ LET r == FuseResults(vector_results, fuzzy_results, weights, RRF_K) IN
        /\ vector_results' = r.vec
        /\ fuzzy_results' = r.fuz
        /\ fused_calls' = Append(fused_calls, r.out)
    /\ UNCHANGED <<weights, graph_vars, walk_call, retrieve_call, other_vars>>

NextFuse == FuseCall

SpecFuse == InitFuse /\ [][NextFuse]_vars

(***************************************************************************)
(* Claims about fuse_results.                                              *)
(***************************************************************************)
DocIds(l) == {l[i]["doc_id"] : i \in DOMAIN l}
DocSeq(l) == [i \in DOMAIN l |-> l[i]["doc_id"]]
Positions(l, d) == {i \in DOMAIN l : l[i]["doc_id"] = d}
Without(l, d) == SelectSeq(l, LAMBDA r : r["doc_id"] # d)
ScoreIn(out, d) == out[CHOOSE i \in DOMAIN out : out[i]["doc_id"] = d]["fused_score"]

\* The sum the claim states, over the positions (1-based here, so rank + 1)
\* of d in a list, in units of 1 / (10 * ScoreDen).
ListSum(l, d, weight) ==
    SumOver(Positions(l, d), [i \in DOMAIN l |-> (weight * ScoreDen) \div (RRF_K + i)])

StatedScore(d) ==
    ListSum(vector_results, d, EffectiveWeights(weights)["vector"])
    + ListSum(fuzzy_results, d, EffectiveWeights(weights)["fuzzy"])

\* C1: every fuse_results call returns exactly one record per distinct doc_id
\* of the two lists, whose fused_score is the sum of weight/(k+r+1) over the
\* positions r of the doc_id in each list; two empty lists give an empty list.
C1_OneRecordPerDocWithSummedScore ==
    fused_calls # <<>> =>
        LET out == fused_calls[Len(fused_calls)]
            ids == DocIds(vector_results) \cup DocIds(fuzzy_results)
        IN  /\ DocIds(out) = ids
            /\ Len(out) = Cardinality(ids)
            /\ \A i \in DOMAIN out : out[i]["fused_score"] = StatedScore(out[i]["doc_id"])
            /\ (vector_results = <<>> /\ fuzzy_results = <<>>) => out = <<>>

\* A call was made on lists where one doc_id occurs twice in the vector list
\* and once in the fuzzy list, and another doc_id occurs in one list only.
C1_Witness ==
    /\ fused_calls # <<>>
    /\ \E d \in Docs :
        /\ Cardinality(Positions(vector_results, d)) = 2
        /\ Cardinality(Positions(fuzzy_results, d)) = 1
    /\ \E d \in Docs : d \in DocIds(fuzzy_results) \ DocIds(vector_results)

PositiveWeights ==
    EffectiveWeights(weights)["vector"] > 0 /\ EffectiveWeights(weights)["fuzzy"] > 0

\* C2: with weights 0.6/0.4 and k = 60 an item at rank 0 of both lists scores
\* strictly higher than an item at rank 0 of one list only; for positive
\* weights the occurrences of an item in the other list strictly raise its
\* score; vector [d1, d2] with fuzzy [d2, d3] fuses to the order d2, d1, d3.
C2_AgreementRaisesScore ==
    fused_calls # <<>> =>
        LET out == fused_calls[Len(fused_calls)]
            Alone(v, f, d) == ScoreIn(FuseResults(v, f, weights, RRF_K).out, d)
        IN  /\ \A d \in Docs :
                (/\ EffectiveWeights(weights) = DefaultWeights
                 /\ vector_results # <<>> /\ fuzzy_results # <<>>
                 /\ vector_results[1]["doc_id"] = d /\ fuzzy_results[1]["doc_id"] = d)
                => /\ ScoreIn(out, d) > Alone(<<vector_results[1]>>, <<>>, d)
                   /\ ScoreIn(out, d) > Alone(<<>>, <<fuzzy_results[1]>>, d)
            /\ \A d \in DocIds(vector_results) \cap DocIds(fuzzy_results) :
                PositiveWeights
                => /\ ScoreIn(out, d) > Alone(vector_results, Without(fuzzy_results, d), d)
                   /\ ScoreIn(out, d) > Alone(Without(vector_results, d), fuzzy_results, d)
            /\ (/\ EffectiveWeights(weights) = DefaultWeights
                /\ DocSeq(vector_results) = <<"d1", "d2">>
                /\ DocSeq(fuzzy_results) = <<"d2", "d3">>)
               => DocSeq(out) = <<"d2", "d1", "d3">>

\* The end-to-end scenario has been fused: d2 is in both lists.
C2_Witness ==
    /\ fused_calls # <<>>
    /\ weights = DefaultWeights
    /\ DocSeq(vector_results) = <<"d1", "d2">>
    /\ DocSeq(fuzzy_results) = <<"d2", "d3">>
    /\ DocSeq(fused_calls[Len(fused_calls)]) = <<"d2", "d1", "d3">>

IdsAndScores(out) == [i \in DOMAIN out |-> <<out[i]["doc_id"], out[i]["fused_score"]>>]

\* C10: a second fuse_results call on the same list objects (as the first
\* call left them), with the same weights and k, returns the same sequence
\* of doc_ids with the same fused_score each.
C10_SecondCallSameIdsAndScores ==
    Len(fused_calls) >= 2 =>
        \A c \in 2..Len(fused_calls) :
            IdsAndScores(fused_calls[c]) = IdsAndScores(fused_calls[1])

\* Two calls were made, and the first one wrote rank fields into the dicts
\* of the input lists that the second call read.
C10_Witness ==
    /\ Len(fused_calls) = 2
    /\ Len(fused_calls[2]) >= 2
    /\ \E i \in DOMAIN vector_results : "fuzzy_rank" \in DOMAIN vector_results[i]
    /\ \E i \in DOMAIN fuzzy_results : "fuzzy_rank" \in DOMAIN fuzzy_results[i]
    /\ \E d \in Docs : Cardinality(Positions(vector_results, d)) = 2


Distinct(l) == \A i \in DOMAIN l, j \in DOMAIN l : i # j => l[i]["doc_id"] # l[j]["doc_id"]

StrictlyDecreasing(out) ==
    \A i \in 1..(Len(out) - 1) : out[i]["fused_score"] > out[i + 1]["fused_score"]

\* The position at which d is first met: vector list first, then fuzzy list
FirstMet(d) ==
    LET seen == DocSeq(vector_results) \o DocSeq(fuzzy_results)
    IN  CHOOSE i \in DOMAIN seen : seen[i] = d /\ \A j \in 1..(i - 1) : seen[j] # d

\* C11: the output of fuse_results is sorted by non-increasing fused_score,
\* records of equal score are in the order in which their doc_id was first
\* met (vector list, then fuzzy list), and a single list of distinct ids with
\* a positive weight comes back in its order with strictly decreasing scores.
C11_SortedWithStableTies ==
    fused_calls # <<>> =>
        LET out == fused_calls[Len(fused_calls)] IN
        /\ \A i \in DOMAIN out, j \in DOMAIN out :
              i < j =>
                \/ out[i]["fused_score"] > out[j]["fused_score"]
                \/ /\ out[i]["fused_score"] = out[j]["fused_score"]
                   /\ FirstMet(out[i]["doc_id"]) < FirstMet(out[j]["doc_id"])
        /\ (/\ fuzzy_results = <<>> /\ Distinct(vector_results)
            /\ EffectiveWeights(weights)["vector"] > 0)
           => DocSeq(out) = DocSeq(vector_results) /\ StrictlyDecreasing(out)
        /\ (/\ vector_results = <<>> /\ Distinct(fuzzy_results)
            /\ EffectiveWeights(weights)["fuzzy"] > 0)
           => DocSeq(out) = DocSeq(fuzzy_results) /\ StrictlyDecreasing(out)

\* A call returned two records of equal score, the first from the vector
\* list and the second from the fuzzy list.
C11_Witness ==
    /\ Len(fused_calls) = 1
    /\ Len(fused_calls[1]) = 2
    /\ fused_calls[1][1]["fused_score"] = fused_calls[1][2]["fused_score"]
    /\ fused_calls[1][1]["fused_score"] > 0
    /\ DocSeq(vector_results) = <<fused_calls[1][1]["doc_id"]>>
    /\ DocSeq(fuzzy_results) = <<fused_calls[1][2]["doc_id"]>>


\* The records the lists are built from in InitFuse
VectorInputs == {VectorRecord(d, s) : d \in Docs, s \in Scores}
FuzzyInputs == {FuzzyRecord(d, 1) : d \in Docs}

\* C12 (fusion half): fuse_results leaves every record of vector_results and
\* fuzzy_results with exactly the fields and values it had before the call.
C12_FuseLeavesInputs ==
    fused_calls # <<>> =>
        /\ \A i \in DOMAIN vector_results : vector_results[i] \in VectorInputs
        /\ \A i \in DOMAIN fuzzy_results : fuzzy_results[i] \in FuzzyInputs


\* The fields of the records the retrieval services return
VectorFields == {"doc_id", "score", "chunk_text"}
FuzzyFields == {"doc_id", "score", "type", "snippet"}
FusionFields == {"fused_score", "fusion_method"}

PosIn(l, d) == CHOOSE i \in DOMAIN l : l[i]["doc_id"] = d

\* C14: after one call on lists without repeated ids, the fused record of a
\* doc_id in both lists keeps every vector field, gains the fields only the
\* fuzzy record has, and carries the 0-based position and raw score of both
\* lists; the fused record of a doc_id in one list carries that strategy's
\* fields and rank/score only.
C14_FusedRecordMergesBothRecords ==
    (Len(fused_calls) = 1 /\ Distinct(vector_results) /\ Distinct(fuzzy_results)) =>
        \A i \in DOMAIN fused_calls[1] :
            LET rec == fused_calls[1][i]
                d == rec["doc_id"]
                inVec == d \in DocIds(vector_results)
                inFuz == d \in DocIds(fuzzy_results)
            IN  /\ inVec =>
                    /\ VectorFields \subseteq DOMAIN rec
                    /\ rec["chunk_text"] = vector_results[PosIn(vector_results, d)]["chunk_text"]
                    /\ rec["vector_rank"] = PosIn(vector_results, d) - 1
                    /\ rec["vector_score"] = vector_results[PosIn(vector_results, d)]["score"]
                /\ inFuz =>
                    /\ rec["fuzzy_rank"] = PosIn(fuzzy_results, d) - 1
                    /\ rec["fuzzy_score"] = fuzzy_results[PosIn(fuzzy_results, d)]["score"]
                /\ (inVec /\ inFuz) => (FuzzyFields \ VectorFields) \subseteq DOMAIN rec
                /\ (inVec /\ ~inFuz) =>
                    DOMAIN rec = VectorFields \cup {"vector_rank", "vector_score"} \cup FusionFields
                /\ (inFuz /\ ~inVec) =>
                    (DOMAIN rec) \ {"fuzzy_type"} =
                        FuzzyFields \cup {"fuzzy_rank", "fuzzy_score"} \cup FusionFields

(***************************************************************************)
(* SpecFuseKeys: one fuse_results call with a weights mapping that lacks   *)
(* the key of one strategy.  last_call holds the exception of the call.    *)
(***************************************************************************)
PartialWeights == {[fuzzy |-> 4], [vector |-> 6]}

InitFuseKeys ==
    /\ vector_results \in VectorLists
    /\ fuzzy_results \in FuzzyLists
    /\ weights \in PartialWeights
    /\ fused_calls = <<>>
    /\ GraphIdle
    /\ OthersIdle
    /\ walk_call = NoCall
    /\ retrieve_call = NoCall

\* A call that raises returns nothing; what it wrote to the input dicts stays
FuseCallKeys ==
    /\ last_call = NoCall
    /\ \E r \in {FuseResults(vector_results, fuzzy_results, weights, RRF_K)} :
        /\ vector_results' = r.vec
        /\ fuzzy_results' = r.fuz
        /\ fused_calls' = IF r.exc = NoExc THEN Append(fused_calls, r.out) ELSE fused_calls
        /\ last_call' = [op |-> "fuse_results", raised |-> r.exc]
    /\ UNCHANGED <<weights, graph, inserted, clock, walk_call, retrieve_call, other_vars>>

NextFuseKeys == FuseCallKeys

SpecFuseKeys == InitFuseKeys /\ [][NextFuseKeys]_vars

\* C13: fuse_results called with weights that lack the key of a strategy
\* whose list is non-empty completes without error, counts that list's
\* occurrences as 0 and still returns that list's items.
C13_MissingWeightCountsZero ==
    last_call.op = "fuse_results" =>
        /\ last_call.raised = NoExc
        /\ Len(fused_calls) = 1
        /\ DocIds(fused_calls[1]) = DocIds(vector_results) \cup DocIds(fuzzy_results)
        /\ \A i \in DOMAIN fused_calls[1] :
              fused_calls[1][i]["fused_score"] =
                  ListSum(vector_results, fused_calls[1][i]["doc_id"], Get(weights, "vector", 0))
                  + ListSum(fuzzy_results, fused_calls[1][i]["doc_id"], Get(weights, "fuzzy", 0))


(***************************************************************************)
(* Spec: the life of one NeuralGraphMemory.  It starts with the empty      *)
(* graph of the constructor; callers insert nodes, edges, code files and   *)
(* conversations.  Successive calls see successive values of               *)
(* datetime.now().                                                         *)
(***************************************************************************)
MaxClock == 3        \* calls made on one graph

NodeIds == {"a", "b"}
UnknownId == "zz"
NodeTypes == {"document", "function"}
Contents == {<<"alpha", "beta">>, <<"gamma">>}
EdgeWeights == {2, 5}
FilePaths == {"m.py"}
DependencyLists ==
    {<<>>, << <<"import", "os">> >>, << <<"import", "os">>, <<"defines_function", "run">> >>}
PilotIds == {"p0"}
RelatedDocLists == {<<>>, <<"a", UnknownId>>}

Init ==
    /\ graph = EmptyGraph
    /\ inserted = {}
    /\ clock = 0
    /\ last_call = NoCall
    /\ FuseIdle
    /\ OthersIdle
    /\ walk_call = NoCall
    /\ retrieve_call = NoCall

\* What every insertion leaves alone
InsertFrame == UNCHANGED <<fuse_vars, walk_call, retrieve_call, other_vars>>

AddNode ==
    /\ clock < MaxClock
    /\ \E node_id \in NodeIds, node_type \in NodeTypes, content \in Contents :
        LET r == add_node(graph, node_id, node_type, content, clock) IN
        /\ graph' = r.graph
        /\ inserted' = inserted \cup {node_id}
        /\ last_call' = [op |-> "add_node", node_id |-> node_id, content |-> content,
                         ret |-> r.ret, raised |-> r.raised]
    /\ clock' = clock + 1
    /\ InsertFrame

AddEdge ==
    /\ clock < MaxClock
    /\ \E source \in Range(graph.nodes) \cup NodeIds \cup {UnknownId},
          target \in Range(graph.nodes) \cup NodeIds \cup {UnknownId},
          weight \in EdgeWeights :
        LET r == add_edge(graph, source, target, "similarity", weight, clock) IN
        /\ graph' = r.graph
        /\ last_call' = [op |-> "add_edge", source |-> source, target |-> target,
                         known |-> HasNode(graph, source) /\ HasNode(graph, target),
                         ret |-> r.ret, raised |-> r.raised]
    /\ clock' = clock + 1
    /\ UNCHANGED inserted
    /\ InsertFrame

\* The node ids add_code_file passes to add_node: the file, and each
\* dependency that is not yet a node
CodeFileNodes(G, file_path, dependencies) ==
    {FileId(file_path)} \cup
    {DepId(dependencies[i]) : i \in {j \in DOMAIN dependencies : ~HasNode(G, DepId(dependencies[j]))}}

AddCodeFile ==
    /\ clock < MaxClock
    /\ \E file_path \in FilePaths, content \in Contents, dependencies \in DependencyLists :
        LET r == add_code_file(graph, file_path, content, dependencies, clock) IN
        /\ graph' = r.graph
        /\ inserted' = inserted \cup CodeFileNodes(graph, file_path, dependencies)
        /\ last_call' = [op |-> "add_code_file", file_path |-> file_path,
                         ret |-> r.ret, raised |-> r.raised]
    /\ clock' = clock + 1
    /\ InsertFrame

AddConversationContext ==
    /\ clock < MaxClock
    /\ \E utterance \in Contents, pilot_id \in PilotIds, related_docs \in RelatedDocLists :
        LET r == add_conversation_context(graph, utterance, pilot_id, related_docs, clock) IN
        /\ graph' = r.graph
        /\ inserted' = inserted \cup {ConvId(pilot_id, clock)}
        /\ last_call' = [op |-> "add_conversation_context", pilot_id |-> pilot_id,
                         ret |-> r.ret, raised |-> r.raised]
    /\ clock' = clock + 1
    /\ InsertFrame

Next == AddNode \/ AddEdge \/ AddCodeFile \/ AddConversationContext

Spec == Init /\ [][Next]_vars


(***************************************************************************)
(* Claims about insertion, checked under Spec.                             *)
(***************************************************************************)
FailedAddEdge == last_call.op = "add_edge" /\ ~last_call.known

\* C8: add_edge with a source or target that is not a node of the graph
\* fails with UnknownNodeError.
C8_UnknownEndpointRaises ==
    FailedAddEdge => last_call.raised = "UnknownNodeError"

EndpointsInserted ==
    /\ Range(graph.nodes) \subseteq inserted
    /\ \A i \in DOMAIN graph.edges :
          graph.edges[i][1] \in inserted /\ graph.edges[i][2] \in inserted

\* C9: an add_edge with an unknown endpoint leaves the node set and the edge
\* set exactly as they were, and in every reachable state both endpoints of
\* every edge are nodes that were explicitly inserted.
C9_FailedAddEdgeLeavesGraph ==
    /\ [][(last_call'.op = "add_edge" /\ ~last_call'.known) => graph' = graph]_vars
    /\ []EndpointsInserted

\* A failed add_edge on a graph that already has nodes and an edge
C9_Witness ==
    /\ FailedAddEdge
    /\ last_call.ret = FALSE
    /\ graph.edges # <<>>
    /\ Range(graph.nodes) # {}


\* C21: an add_node of a node_id that is already in the graph keeps the
\* number of nodes and every edge with its attributes, replaces the node's
\* content, and leaves the created_at of every node that was in the graph
\* as it was.
C21_ReinsertKeepsCreatedAt ==
    [][(last_call'.op = "add_node" /\ HasNode(graph, last_call'.node_id)) =>
           /\ graph'.nodes = graph.nodes
           /\ graph'.edges = graph.edges
           /\ graph'.eattrs = graph.eattrs
           /\ graph'.attrs[last_call'.node_id]["content"] = last_call'.content
           /\ \A n \in Range(graph.nodes) :
                 graph'.attrs[n]["created_at"] = graph.attrs[n]["created_at"]]_vars


(***************************************************************************)
(* SpecWalk: reasoning_walk called on a graph that insertions built        *)
(* earlier (or load_graph read): every node has the attributes add_node    *)
(* gives it, every edge joins two nodes.                                   *)
(***************************************************************************)
MaxEdges == 2        \* edges of the graph a walk runs on
MaxStarts == 2       \* longest start_nodes list

WalkNodeOrder == <<"a", "b", "c">>
StartIds == {"a", "b", UnknownId}
PagerankValues == {1, 3}

\* start_nodes: lists of distinct ids, some of them not in the graph
StartLists ==
    {l \in SeqsUpTo(StartIds, MaxStarts) :
        \A i \in DOMAIN l, j \in DOMAIN l : i # j => l[i] # l[j]}

NodesUpTo(n) == {WalkNodeOrder[i] : i \in 1..n}

\* All ordered pairs of walk nodes, in a fixed insertion order
PairOrder ==
    [i \in 1..(Len(WalkNodeOrder) * Len(WalkNodeOrder)) |->
        <<WalkNodeOrder[((i - 1) \div Len(WalkNodeOrder)) + 1],
          WalkNodeOrder[((i - 1) % Len(WalkNodeOrder)) + 1]>>]

BuiltGraph(n, types, E, w) ==
    [nodes |-> SubSeq(WalkNodeOrder, 1, n),
     attrs |-> [x \in NodesUpTo(n) |->
                   [type |-> types[x], content |-> <<"gamma">>, created_at |-> 0]],
     edges |-> SelectSeq(PairOrder, LAMBDA e : e \in E),
     eattrs |-> [e \in E |-> [type |-> "similarity", weight |-> w[e], created_at |-> 0]]]

WalkGraphs ==
    UNION {UNION {UNION {{BuiltGraph(n, types, E, w) : w \in [E -> EdgeWeights]} :
                E \in {X \in SUBSET (NodesUpTo(n) \X NodesUpTo(n)) : Cardinality(X) <= MaxEdges}} :
            types \in [NodesUpTo(n) -> NodeTypes]} :
        n \in 0..Len(WalkNodeOrder)}

\* The PageRank scores the walk can read: those of the goal-type nodes
PagerankChoices(G, goal_type) ==
    {pr \in [Range(G.nodes) -> PagerankValues] :
        \A n \in Range(G.nodes) : G.attrs[n]["type"] # goal_type => pr[n] = 1}

InitWalk ==
    /\ graph \in WalkGraphs
    /\ inserted = Range(graph.nodes)
    /\ clock = 0
    /\ last_call = NoCall
    /\ walk_call = NoCall
    /\ FuseIdle
    /\ OthersIdle
    /\ retrieve_call = NoCall

\* reasoning_walk changes no state, so one call per graph is observed
ReasoningWalk ==
    /\ walk_call = NoCall
    /\ \E start_nodes \in StartLists, goal_type \in NodeTypes,
          max_steps \in (-1)..MaxSteps :
        \E pagerank \in PagerankChoices(graph, goal_type) :
            walk_call' = [op |-> "reasoning_walk",
                          start_nodes |-> start_nodes,
                          goal_type |-> goal_type,
                          max_steps |-> max_steps,
                          pagerank |-> pagerank,
                          ret |-> reasoning_walk(graph, start_nodes, goal_type,
                                                 max_steps, pagerank)]
    /\ UNCHANGED <<graph_vars, fuse_vars, retrieve_call, other_vars>>

NextWalk == ReasoningWalk

SpecWalk == InitWalk /\ [][NextWalk]_vars


(***************************************************************************)
(* Claims about reasoning_walk.                                            *)
(***************************************************************************)
Walked == walk_call # NoCall

ResultIds(results) == {results[i]["node_id"] : i \in DOMAIN results}

PresentStarts == {s \in Range(walk_call.start_nodes) : HasNode(graph, s)}

\* The nodes that can be reached from s over at most n edges, by n rounds of
\* one-step expansion
RECURSIVE ReachWithin(_, _)
ReachWithin(S, n) ==
    IF n <= 0 THEN S
    ELSE ReachWithin(S \cup {e[2] : e \in {x \in Range(graph.edges) : x[1] \in S}}, n - 1)

Near(s, n) == IF n < 0 THEN {} ELSE ReachWithin({s}, n)

IsGoal(n) == graph.attrs[n]["type"] = walk_call.goal_type

\* C5: the result includes every goal-type node other than the start node
\* that is within max_steps directed hops of a start node of the graph, and
\* no node that is further than max_steps from (or unreachable from) every
\* start node of the graph; on a -> b -> c with c the only node of the goal
\* type, max_steps = 2 includes c and max_steps = 1 excludes it.
C5_WalkFindsGoalsWithinSteps ==
    Walked =>
        /\ \A s \in PresentStarts :
            \A n \in Near(s, walk_call.max_steps) :
                (IsGoal(n) /\ n # s) => n \in ResultIds(walk_call.ret)
        /\ \A n \in ResultIds(walk_call.ret) :
            \E s \in PresentStarts : n \in Near(s, walk_call.max_steps)
        /\ (/\ graph.nodes = <<"a", "b", "c">>
            /\ graph.edges = << <<"a", "b">>, <<"b", "c">> >>
            /\ walk_call.start_nodes = <<"a">>
            /\ IsGoal("c") /\ ~IsGoal("b"))
           => /\ walk_call.max_steps = 2 => "c" \in ResultIds(walk_call.ret)
              /\ walk_call.max_steps = 1 => "c" \notin ResultIds(walk_call.ret)

\* The walk ran on a -> b -> c from a with max_steps = 2 and returned c.
C5_Witness ==
    /\ Walked
    /\ graph.nodes = <<"a", "b", "c">>
    /\ graph.edges = << <<"a", "b">>, <<"b", "c">> >>
    /\ walk_call.start_nodes = <<"a">>
    /\ walk_call.max_steps = 2
    /\ IsGoal("c") /\ ~IsGoal("b")
    /\ "c" \in ResultIds(walk_call.ret)

\* C6: reasoning_walk called with max_steps <= 0 returns the empty list.
C6_NoStepsNoResults ==
    (Walked /\ walk_call.max_steps <= 0) => walk_call.ret = <<>>

\* C7: start nodes that are not in the graph are skipped: the result is the
\* result of the call with these start nodes removed, and it is empty when
\* no start node is in the graph.
C7_MissingStartsSkipped ==
    Walked =>
        /\ walk_call.ret =
              reasoning_walk(graph,
                             SelectSeq(walk_call.start_nodes, LAMBDA s : HasNode(graph, s)),
                             walk_call.goal_type, walk_call.max_steps, walk_call.pagerank)
        /\ PresentStarts = {} => walk_call.ret = <<>>

\* A walk from a start list that holds a missing node and a node of the
\* graph returned results.
C7_Witness ==
    /\ Walked
    /\ \E s \in Range(walk_call.start_nodes) : ~HasNode(graph, s)
    /\ PresentStarts # {}
    /\ walk_call.ret # <<>>


\* The entries reasoning_walk pooled before removing duplicates
Pooled ==
    PoolLoop(graph, walk_call.start_nodes, walk_call.goal_type,
             walk_call.max_steps, walk_call.pagerank, <<>>).results

CompositeScore(result) == Get(result, "composite_score", 0)

\* C15: the result holds each node_id at most once, and the entry kept for a
\* node_id has the highest composite_score of all pooled entries of that
\* node_id.
C15_KeepsHighestScoredEntry ==
    Walked =>
        /\ \A i \in DOMAIN walk_call.ret, j \in DOMAIN walk_call.ret :
              i # j => walk_call.ret[i]["node_id"] # walk_call.ret[j]["node_id"]
        /\ \E pooled \in {Pooled} :
              \A i \in DOMAIN walk_call.ret, j \in DOMAIN pooled :
                  pooled[j]["node_id"] = walk_call.ret[i]["node_id"] =>
                      CompositeScore(walk_call.ret[i]) >= CompositeScore(pooled[j])

\* C16: the list reasoning_walk returns is sorted by non-increasing
\* composite_score.
C16_SortedByCompositeScore ==
    Walked =>
        \A i \in 1..(Len(walk_call.ret) - 1) :
            CompositeScore(walk_call.ret[i]) >= CompositeScore(walk_call.ret[i + 1])

\* A walk whose entries, in the order they were pooled, had a lower score
\* before a higher one
C16_Witness ==
    /\ Walked
    /\ Len(walk_call.ret) >= 2
    /\ \E kept \in {Dedupe(Pooled, {}, <<>>)} :
          \E i \in 1..(Len(kept) - 1) :
              CompositeScore(kept[i]) < CompositeScore(kept[i + 1])


\* The three strategies run from every start node that is in the graph, in
\* the order of start_nodes: BFS, then PageRank-guided, then shortest path
RECURSIVE PoolInOrder(_)
PoolInOrder(starts) ==
    IF starts = <<>> THEN <<>>
    ELSE IF ~HasNode(graph, Head(starts)) THEN PoolInOrder(Tail(starts))
    ELSE bfs_search(graph, Head(starts), walk_call.goal_type, walk_call.max_steps).results
         \o pagerank_search(graph, Head(starts), walk_call.goal_type, walk_call.max_steps,
                            walk_call.pagerank)
         \o shortest_path_search(graph, Head(starts), walk_call.goal_type,
                                 walk_call.max_steps)
         \o PoolInOrder(Tail(starts))

FirstOf(pool, node_id) ==
    pool[CHOOSE i \in DOMAIN pool :
            /\ pool[i]["node_id"] = node_id
            /\ \A j \in 1..(i - 1) : pool[j]["node_id"] # node_id]

\* C22: every node_id of the pool is in the result, and its entry is the
\* first entry of that node_id in pooling order, with all its fields as the
\* strategy produced them.
C22_FirstPooledEntryKept ==
    Walked =>
        \E pool \in {PoolInOrder(walk_call.start_nodes)} :
            /\ ResultIds(walk_call.ret) = ResultIds(pool)
            /\ \A i \in DOMAIN walk_call.ret :
                  walk_call.ret[i] = FirstOf(pool, walk_call.ret[i]["node_id"])

\* A walk that pooled, for one node, an entry of one method with a lower
\* score before an entry of another method with a higher score
C22_Witness ==
    /\ Walked
    /\ \E pool \in {PoolInOrder(walk_call.start_nodes)} :
          \E i \in DOMAIN pool, j \in DOMAIN pool :
              /\ i < j
              /\ pool[i] = FirstOf(pool, pool[j]["node_id"])
              /\ pool[i]["method"] # pool[j]["method"]
              /\ CompositeScore(pool[i]) < CompositeScore(pool[j])


(***************************************************************************)
(* RAGOrchestrator.hybrid_retrieve and what it calls.                      *)
(* A query is kept as its sequence of lower-case words of three or more    *)
(* characters.                                                             *)
(***************************************************************************)
\* self.default_k
DEFAULT_K == 10
\* "for node_id in query_nodes[:3]", "relevant_nodes[:5]", "if overlap >= 2"
SEED_LIMIT == 3
QUERY_NODE_LIMIT == 5
MIN_OVERLAP == 2
\* query_neighbors(node_id, max_depth=2)
NEIGHBOR_DEPTH == 2

Min(a, b) == IF a <= b THEN a ELSE b

\* list[:n]
Take(l, n) == SubSeq(l, 1, Min(n, Len(l)))

\* "for neighbor in self.graph.neighbors(current_node)" of query_neighbors:
\* st holds the queue and neighbors_by_depth (keys in insertion order)
RECURSIVE NeighborInfos(_, _, _, _, _, _)
NeighborInfos(G, st, current, nbrs, depth, max_depth) ==
    IF nbrs = <<>> THEN st
    ELSE LET neighbor == Head(nbrs)
             edge_data == G.eattrs[<<current, neighbor>>]
             info == [node_id |-> neighbor,
                      node_type |-> Get(G.attrs[neighbor], "type", "unknown"),
                      edge_type |-> Get(edge_data, "type", "unknown"),
                      weight |-> Get(edge_data, "weight", 0),
                      depth |-> depth + 1,
                      content_preview |-> Get(G.attrs[neighbor], "content", <<>>)]
             st1 == [st EXCEPT
                        !.keys = IF (depth + 1) \in Range(@) THEN @ ELSE Append(@, depth + 1),
                        !.by_depth = SetItem(@, depth + 1,
                                             Append(Get(@, depth + 1, <<>>), info)),
                        !.queue = IF depth + 1 < max_depth
                                  THEN Append(@, <<neighbor, depth + 1>>)
                                  ELSE @]
         IN  NeighborInfos(G, st1, current, Tail(nbrs), depth, max_depth)

\* The while loop of query_neighbors
RECURSIVE NeighborLoop(_, _, _)
NeighborLoop(G, st, max_depth) ==
    IF st.queue = <<>> THEN st
    ELSE LET current == Head(st.queue)[1]
             depth == Head(st.queue)[2]
             st1 == [st EXCEPT !.queue = Tail(@)]
         IN  IF depth > max_depth \/ current \in st.visited
             THEN NeighborLoop(G, st1, max_depth)
             ELSE NeighborLoop(G,
                               NeighborInfos(G, [st1 EXCEPT !.visited = @ \cup {current}],
                                             current, Neighbors(G, current), depth, max_depth),
                               max_depth)

\* query_neighbors(node_id, max_depth): the lists of the returned dict, in
\* the order of its keys ({"neighbors": []} for a node that is not in the graph)
query_neighbors(G, node_id, max_depth) ==
    IF ~HasNode(G, node_id) THEN << <<>> >>
    ELSE LET st == NeighborLoop(G, [queue |-> << <<node_id, 0>> >>, visited |-> {},
                                    keys |-> <<>>, by_depth |-> EmptyDict], max_depth)
         IN  [i \in DOMAIN st.keys |-> st.by_depth[st.keys[i]]]

RECURSIVE Concat(_)
Concat(lists) == IF lists = <<>> THEN <<>> ELSE Head(lists) \o Concat(Tail(lists))

\* relevant_nodes.sort(key=overlap, reverse=True): stable
RECURSIVE InsertByOverlap(_, _)
InsertByOverlap(sorted, x) ==
    IF sorted = <<>> THEN <<x>>
    ELSE IF Head(sorted)[2] >= x[2]
         THEN <<Head(sorted)>> \o InsertByOverlap(Tail(sorted), x)
         ELSE <<x>> \o sorted

RECURSIVE SortByOverlap(_)
SortByOverlap(l) ==
    IF l = <<>> THEN <<>>
    ELSE InsertByOverlap(SortByOverlap(SubSeq(l, 1, Len(l) - 1)), l[Len(l)])

\* _find_query_nodes(query): the nodes whose content shares at least two
\* words with the query, most shared words first, at most five
find_query_nodes(G, query) ==
    LET overlap(n) == Cardinality(Range(query) \cap Range(Get(G.attrs[n], "content", <<>>)))
        relevant == SelectSeq([i \in DOMAIN G.nodes |-> <<G.nodes[i], overlap(G.nodes[i])>>],
                              LAMBDA x : x[2] >= MIN_OVERLAP)
        ranked == Take(SortByOverlap(relevant), QUERY_NODE_LIMIT)
    IN  [i \in DOMAIN ranked |-> ranked[i][1]]

\* The graph branch of hybrid_retrieve: graph_results before the [:k] cut
RECURSIVE SeedNeighbors(_, _)
SeedNeighbors(G, seeds) ==
    IF seeds = <<>> THEN <<>>
    ELSE Concat(query_neighbors(G, Head(seeds), NEIGHBOR_DEPTH)) \o SeedNeighbors(G, Tail(seeds))

\* weights={"vector": 0.6, "fuzzy": 0.4}, in tenths
RetrieveWeights == [vector |-> 6, fuzzy |-> 4]

\* if k is None: k = self.default_k
EffectiveK(k) == IF k = None THEN DEFAULT_K ELSE k.value

\* The try block of hybrid_retrieve runs as four stages over st: the
\* exception that ended the block (exc), the results dict (results) and the
\* invocations made so far (log: the k of every vector and fuzzy query, the
\* number of _find_query_nodes calls, the seeds given to query_neighbors,
\* the number of fusions).  env gives what each collaborator does
\* when it is invoked: env.vector and env.fuzzy are [exc, hits],
\* env.neighbors_exc is the exception of graph_memory.query_neighbors
\* (_find_query_nodes catches its own).
RetrieveStart(query, mode, now) ==
    [exc |-> NoExc,
     results |-> [query |-> query, mode |-> mode, pilot_id |-> None, timestamp |-> now,
                  vector_results |-> <<>>, fuzzy_results |-> <<>>,
                  graph_results |-> <<>>, fused_results |-> <<>>],
     log |-> [vector |-> <<>>, fuzzy |-> <<>>, find |-> 0, graph |-> <<>>, fusion |-> 0]]

\* Vector search
VectorStage(st, mode, k, env) ==
    IF st.exc # NoExc \/ mode \notin {"all", "semantic", "vector"} THEN st
    ELSE IF env.vector.exc # NoExc
    THEN [st EXCEPT !.exc = env.vector.exc, !.log.vector = Append(@, k * 2)]
    ELSE [st EXCEPT !.results.vector_results = Take(env.vector.hits, k * 2),
                    !.log.vector = Append(@, k * 2)]

\* The fuzzy search run in every mode
FuzzyStageEveryMode(st, mode, k, env) ==
    IF st.exc # NoExc THEN st
    ELSE IF env.fuzzy.exc # NoExc
    THEN [st EXCEPT !.exc = env.fuzzy.exc, !.log.fuzzy = Append(@, k * 2)]
    ELSE [st EXCEPT !.results.fuzzy_results = Take(env.fuzzy.hits, k * 2),
                    !.log.fuzzy = Append(@, k * 2)]

\* Fuzzy search
FuzzyStage(st, mode, k, env) ==
    IF st.exc # NoExc \/ mode \notin {"all", "fuzzy", "lexical"} THEN st
    ELSE IF env.fuzzy.exc # NoExc
    THEN [st EXCEPT !.exc = env.fuzzy.exc, !.log.fuzzy = Append(@, k * 2)]
    ELSE [st EXCEPT !.results.fuzzy_results = Take(env.fuzzy.hits, k * 2),
                    !.log.fuzzy = Append(@, k * 2)]

\* Graph search
GraphStage(st, G, query, mode, k, env) ==
    IF st.exc # NoExc \/ mode \notin {"all", "graph"} THEN st
    ELSE LET seeds == Take(find_query_nodes(G, query), SEED_LIMIT) IN
         IF seeds = <<>> THEN [st EXCEPT !.log.find = 1]
         ELSE IF env.neighbors_exc # NoExc
         THEN [st EXCEPT !.exc = env.neighbors_exc, !.log.find = 1, !.log.graph = seeds]
         ELSE [st EXCEPT !.results.graph_results = Take(SeedNeighbors(G, seeds), k),
                         !.log.find = 1, !.log.graph = seeds]

\* The whole fused list stored, without the cut to k
StoreFusionUncut(st, fusion, k) ==
    IF fusion.exc # NoExc
    THEN [st EXCEPT !.exc = fusion.exc, !.log.fusion = 1]
    ELSE [st EXCEPT !.results.vector_results = fusion.vec,
                    !.results.fuzzy_results = fusion.fuz,
                    !.results.fused_results = fusion.out,
                    !.log.fusion = 1]

\* results["fused_results"] = fused[:k]; the dicts of the two result lists
\* are the ones fuse_results wrote to
StoreFusion(st, fusion, k) ==
    IF fusion.exc # NoExc
    THEN [st EXCEPT !.exc = fusion.exc, !.log.fusion = 1]
    ELSE [st EXCEPT !.results.vector_results = fusion.vec,
                    !.results.fuzzy_results = fusion.fuz,
                    !.results.fused_results = Take(fusion.out, k),
                    !.log.fusion = 1]

\* Fuse results if multiple modes
FuseStage(st, mode, k) ==
    IF \/ st.exc # NoExc
       \/ mode # "all"
       \/ (st.results.vector_results = <<>> /\ st.results.fuzzy_results = <<>>)
    THEN st
    ELSE StoreFusion(st, FuseResults(st.results.vector_results, st.results.fuzzy_results,
                                     RetrieveWeights, RRF_K), k)

HybridRetrieveTry(G, query, mode, kArg, env, now) ==
    FuseStage(
        GraphStage(
            FuzzyStage(
                VectorStage(RetrieveStart(query, mode, now), mode, EffectiveK(kArg), env),
                mode, EffectiveK(kArg), env),
            G, query, mode, EffectiveK(kArg), env),
        mode, EffectiveK(kArg))

\* The end of the try block with no "except Exception" clause: the
\* exception goes to the caller
Propagate(try, query) ==
    IF try.exc # NoExc
    THEN [raised |-> try.exc, ret |-> [query |-> query], log |-> try.log]
    ELSE [raised |-> NoExc, ret |-> try.results, log |-> try.log]

\* "except Exception as e: return {"error": str(e), "query": query}"
ExceptException(try, query) ==
    IF try.exc # NoExc
    THEN [raised |-> NoExc, ret |-> [error |-> try.exc, query |-> query], log |-> try.log]
    ELSE [raised |-> NoExc, ret |-> try.results, log |-> try.log]

\* hybrid_retrieve(query, mode, pilot_id, k): what it returns (ret), the
\* exception it lets out (raised) and the invocations it made (log)
hybrid_retrieve(G, query, mode, kArg, env, now) ==
    ExceptException(HybridRetrieveTry(G, query, mode, kArg, env, now), query)

(***************************************************************************)
(* SpecRetrieve: one hybrid_retrieve call on an orchestrator whose graph   *)
(* memory holds a graph built by insertions, with collaborators that       *)
(* return hits or raise.                                                   *)
(***************************************************************************)
Modes == {"all", "semantic", "vector", "fuzzy", "lexical", "graph", "other"}
KChoices == {None, [value |-> 1], [value |-> 2]}
Queries == {<<>>, <<"alpha", "beta">>, <<"gamma">>}

\* A hit of query_conversation_memory: it has no doc_id
ConversationHit ==
    [utterance |-> "hello", speaker |-> "user", timestamp |-> 0, score |-> 1,
     type |-> "conversation"]

Raises == [exc |-> "BackendUnavailableError", hits |-> <<>>]
Returns(hits) == [exc |-> NoExc, hits |-> hits]

VectorBackends ==
    {Raises, Returns(<<>>), Returns(<<VectorRecord("d1", 2)>>),
     Returns(<<VectorRecord("d1", 2), VectorRecord("d2", 1)>>),
     Returns(<<VectorRecord("d1", 2), VectorRecord("d2", 2), VectorRecord("d1", 1)>>),
     Returns(<<VectorRecord("d1", 2), ConversationHit>>)}

FuzzyBackends ==
    {Raises, Returns(<<>>), Returns(<<FuzzyRecord("d2", 2), FuzzyRecord("d3", 1)>>),
     Returns(<<FuzzyRecord("d3", 2), FuzzyRecord("d1", 1), FuzzyRecord("d2", 1)>>)}

GraphFailures == {NoExc, "BackendUnavailableError"}

\* Graphs as add_node and add_edge leave them: a <-> b -> c, where the
\* contents of a and b share two words with a query and that of c does not
LinkedGraph ==
    [nodes |-> <<"a", "b", "c">>,
     attrs |-> [x \in {"a", "b", "c"} |->
                   [type |-> IF x = "a" THEN "document" ELSE "function",
                    content |-> IF x = "c" THEN <<"gamma">> ELSE <<"alpha", "beta">>,
                    created_at |-> 0]],
     edges |-> << <<"a", "b">>, <<"b", "c">>, <<"b", "a">> >>,
     eattrs |-> [e \in {<<"a", "b">>, <<"b", "c">>, <<"b", "a">>} |->
                    [type |-> "similarity", weight |-> 5, created_at |-> 1]]]

LoneGraph ==
    [nodes |-> <<"a">>,
     attrs |-> [x \in {"a"} |->
                   [type |-> "document", content |-> <<"alpha", "beta">>, created_at |-> 0]],
     edges |-> <<>>,
     eattrs |-> <<>>]

RetrieveGraphs == {EmptyGraph, LoneGraph, LinkedGraph}

InitRetrieve ==
    /\ graph \in RetrieveGraphs
    /\ inserted = Range(graph.nodes)
    /\ clock = 3
    /\ last_call = NoCall
    /\ walk_call = NoCall
    /\ retrieve_call = NoCall
    /\ FuseIdle
    /\ OthersIdle

\* hybrid_retrieve leaves the orchestrator as it was, so one call is observed
HybridRetrieve ==
    /\ retrieve_call = NoCall
    /\ \E query \in Queries, mode \in Modes, k \in KChoices,
          vector \in VectorBackends, fuzzy \in FuzzyBackends,
          neighbors_exc \in GraphFailures :
        LET env == [vector |-> vector, fuzzy |-> fuzzy, neighbors_exc |-> neighbors_exc]
        IN  retrieve_call' = [op |-> "hybrid_retrieve", query |-> query, mode |-> mode,
                              k |-> k, env |-> env,
                              outcome |-> hybrid_retrieve(graph, query, mode, k, env, clock)]
    /\ UNCHANGED <<graph_vars, fuse_vars, walk_call, other_vars>>

NextRetrieve == HybridRetrieve

SpecRetrieve == InitRetrieve /\ [][NextRetrieve]_vars


(***************************************************************************)
(* Claims about hybrid_retrieve, checked under SpecRetrieve.               *)
(***************************************************************************)
Retrieved == retrieve_call.op = "hybrid_retrieve"

ResultKeys ==
    {"query", "mode", "pilot_id", "timestamp", "vector_results", "fuzzy_results",
     "graph_results", "fused_results"}

HitIds(hits) == [i \in DOMAIN hits |-> Get(hits[i], "doc_id", "None")]

\* C3: when the fuzzy collaborator raises in mode "all" and the vector
\* collaborator returned hits, the call still returns a record with these
\* (non-empty) vector_results, an empty fuzzy_results, and fused_results
\* that are the fusion of the vector results alone, cut to k.
C3_FuzzyFailureKeepsVector ==
    (/\ Retrieved
     /\ retrieve_call.mode = "all"
     /\ retrieve_call.env.vector.exc = NoExc
     /\ retrieve_call.env.vector.hits # <<>>
     /\ \A i \in DOMAIN retrieve_call.env.vector.hits :
           "doc_id" \in DOMAIN retrieve_call.env.vector.hits[i]
     /\ retrieve_call.env.fuzzy.exc # NoExc)
    => LET k == EffectiveK(retrieve_call.k)
           hits == Take(retrieve_call.env.vector.hits, k * 2)
           alone == FuseResults(hits, <<>>, RetrieveWeights, RRF_K)
       IN  /\ DOMAIN retrieve_call.outcome.ret = ResultKeys
           /\ HitIds(retrieve_call.outcome.ret.vector_results) = HitIds(hits)
           /\ retrieve_call.outcome.ret.fuzzy_results = <<>>
           /\ retrieve_call.outcome.ret.fused_results = Take(alone.out, k)

\* C4: whatever the query, the mode and the collaborators do, hybrid_retrieve
\* lets no exception out: it returns a result record or an error record.
C4_NoExceptionPropagates ==
    Retrieved =>
        /\ retrieve_call.outcome.raised = NoExc
        /\ \/ DOMAIN retrieve_call.outcome.ret = ResultKeys
           \/ DOMAIN retrieve_call.outcome.ret = {"error", "query"}

\* A collaborator raised, or the fusion met a hit without doc_id, and the
\* call returned the error record
C4_Witness ==
    /\ Retrieved
    /\ retrieve_call.outcome.raised = NoExc
    /\ DOMAIN retrieve_call.outcome.ret = {"error", "query"}
    /\ retrieve_call.outcome.ret.error = "KeyError"
    /\ retrieve_call.env.vector.exc = NoExc
    /\ retrieve_call.env.fuzzy.exc = NoExc

\* What the two search collaborators handed to the call: their hits, cut to
\* the k * 2 that were asked for
VectorGiven == Take(retrieve_call.env.vector.hits, EffectiveK(retrieve_call.k) * 2)
FuzzyGiven == Take(retrieve_call.env.fuzzy.hits, EffectiveK(retrieve_call.k) * 2)

ReturnedRecord == Retrieved /\ DOMAIN retrieve_call.outcome.ret = ResultKeys

HitIdSet(hits) == {Get(hits[i], "doc_id", "None") : i \in DOMAIN hits}

\* The fused_results of the same call on an orchestrator whose graph memory
\* is empty
FusedWithoutGraph ==
    hybrid_retrieve(EmptyGraph, retrieve_call.query, retrieve_call.mode, retrieve_call.k,
                    retrieve_call.env, clock).ret.fused_results

\* C17: a call in mode "all" that returns a result record has as
\* fused_results the first k records of the fusion of the vector and fuzzy
\* results with weights 0.6 and 0.4: at most k entries, every doc_id from
\* one of the two lists, and the same entries and scores whatever the graph
\* search found.
C17_FusedIsFirstKOfFusion ==
    (ReturnedRecord /\ retrieve_call.mode = "all") =>
        \E ret \in {retrieve_call.outcome.ret} :
            /\ \E fusion \in {FuseResults(VectorGiven, FuzzyGiven,
                                           [vector |-> 6, fuzzy |-> 4], RRF_K)} :
                  ret.fused_results = Take(fusion.out, EffectiveK(retrieve_call.k))
            /\ Len(ret.fused_results) <= EffectiveK(retrieve_call.k)
            /\ HitIdSet(ret.fused_results)
                  \subseteq HitIdSet(ret.vector_results) \cup HitIdSet(ret.fuzzy_results)
            /\ ret.fused_results = FusedWithoutGraph

\* A call in mode "all" with k = 1 whose fusion had more than one record and
\* whose graph search found neighbours
C17_Witness ==
    /\ ReturnedRecord
    /\ retrieve_call.mode = "all"
    /\ retrieve_call.k = [value |-> 1]
    /\ retrieve_call.outcome.ret.graph_results # <<>>
    /\ Len(retrieve_call.outcome.ret.fused_results) = 1
    /\ Cardinality(HitIdSet(VectorGiven) \cup HitIdSet(FuzzyGiven)) >= 2


\* C18: a call in mode "semantic" queries the vector collaborator exactly
\* once, for k * 2 candidates, and neither the fuzzy collaborator nor the
\* graph memory nor the fusion; a call in mode "fuzzy" queries the fuzzy
\* collaborator exactly once, for k * 2 candidates, and nothing else.  The
\* record such a call returns has the other result lists and fused_results
\* empty.
C18_SingleChannelModes ==
    Retrieved =>
        \E log \in {retrieve_call.outcome.log}, k \in {EffectiveK(retrieve_call.k)} :
            /\ retrieve_call.mode = "semantic" =>
                /\ log.vector = <<k * 2>>
                /\ log.fuzzy = <<>> /\ log.find = 0 /\ log.graph = <<>> /\ log.fusion = 0
                /\ ReturnedRecord =>
                    /\ retrieve_call.outcome.ret.fuzzy_results = <<>>
                    /\ retrieve_call.outcome.ret.graph_results = <<>>
                    /\ retrieve_call.outcome.ret.fused_results = <<>>
            /\ retrieve_call.mode = "fuzzy" =>
                /\ log.fuzzy = <<k * 2>>
                /\ log.vector = <<>> /\ log.find = 0 /\ log.graph = <<>> /\ log.fusion = 0
                /\ ReturnedRecord =>
                    /\ retrieve_call.outcome.ret.vector_results = <<>>
                    /\ retrieve_call.outcome.ret.graph_results = <<>>
                    /\ retrieve_call.outcome.ret.fused_results = <<>>

\* A call in mode "semantic" that returned vector hits, while the fuzzy
\* collaborator had hits to give and the graph had nodes matching the query
C18_Witness ==
    /\ ReturnedRecord
    /\ retrieve_call.mode = "semantic"
    /\ retrieve_call.k = [value |-> 2]
    /\ Len(retrieve_call.outcome.ret.vector_results) = 3
    /\ retrieve_call.env.fuzzy.hits # <<>>
    /\ find_query_nodes(graph, retrieve_call.query) # <<>>


SharedWords(n, query) ==
    Cardinality(Range(query) \cap Range(Get(graph.attrs[n], "content", <<>>)))

\* C19: a call in mode "graph" that returns a result record started from at
\* most 3 seeds, each a node whose content shares at least 2 words with the
\* query, and its graph_results are what reasoning_walk returns from these
\* seeds with max_steps = 2 (for some goal type, whole or cut to k).
C19_GraphModeRunsReasoningWalk ==
    (ReturnedRecord /\ retrieve_call.mode = "graph") =>
        \E seeds \in {retrieve_call.outcome.log.graph} :
            /\ Len(seeds) <= 3
            /\ \A i \in DOMAIN seeds : SharedWords(seeds[i], retrieve_call.query) >= 2
            /\ \E goal_type \in NodeTypes :
                  \E pagerank \in PagerankChoices(graph, goal_type) :
                      \E walk \in {reasoning_walk(graph, seeds, goal_type, 2, pagerank)} :
                          retrieve_call.outcome.ret.graph_results
                              \in {walk, Take(walk, EffectiveK(retrieve_call.k))}

\* C20: a call with an empty query invokes no collaborator and returns the
\* MalformedQueryError record in place of a result record.
C20_EmptyQueryRejected ==
    (Retrieved /\ retrieve_call.query = <<>>) =>
        /\ retrieve_call.outcome.log.vector = <<>>
        /\ retrieve_call.outcome.log.fuzzy = <<>>
        /\ retrieve_call.outcome.log.find = 0
        /\ retrieve_call.outcome.log.graph = <<>>
        /\ DOMAIN retrieve_call.outcome.ret # ResultKeys
        /\ Get(retrieve_call.outcome.ret, "error", "") = "MalformedQueryError"


\* C27: a call in mode "all" whose vector collaborator returned document
\* chunks followed by conversation hits, with no collaborator failing,
\* returns a result record with these vector_results and with
\* fused_results.
C27_ConversationHitsAreFused ==
    (/\ Retrieved
     /\ retrieve_call.mode = "all"
     /\ retrieve_call.env.vector.exc = NoExc
     /\ \E i \in DOMAIN VectorGiven : VectorGiven[i] = ConversationHit
     /\ retrieve_call.env.fuzzy.exc = NoExc
     /\ retrieve_call.outcome.log.graph = <<>>)
    => /\ ReturnedRecord
       /\ Len(retrieve_call.outcome.ret.vector_results) = Len(VectorGiven)
       /\ retrieve_call.outcome.ret.fused_results # <<>>

(***************************************************************************)
(* SpecBfs: one _bfs_search call, one iteration of its while loop per      *)
(* step, on a graph that insertions built.  search holds the arguments,    *)
(* the loop variables queue, visited and results, and the history of the   *)
(* nodes the loop expanded.                                                *)
(***************************************************************************)
MaxSearchEdges == 3      \* edges of the graph a single strategy runs on

SearchEdgeSets(n) ==
    {X \in SUBSET (NodesUpTo(n) \X NodesUpTo(n)) : Cardinality(X) <= MaxSearchEdges}

\* A graph of up to three nodes with cycles and self-loops; BFS reads no
\* weight
InitBfs ==
    /\ \E n \in 0..Len(WalkNodeOrder) :
       \E types \in [NodesUpTo(n) -> NodeTypes], E \in SearchEdgeSets(n) :
           graph = BuiltGraph(n, types, E, [e \in E |-> 5])
    /\ inserted = Range(graph.nodes)
    /\ clock = 0
    /\ last_call = NoCall
    /\ walk_call = NoCall
    /\ retrieve_call = NoCall
    /\ FuseIdle
    /\ OthersIdle

BfsFrame == UNCHANGED <<fuse_vars, graph_vars, walk_call, retrieve_call, loop, grok, vad>>

\* results = [], visited = set(), queue = [(start_node, 0, [])]
BfsStart ==
    /\ search = NoCall
    /\ \E start_node \in Range(graph.nodes), goal_type \in NodeTypes,
          max_steps \in (-1)..MaxSteps :
        search' = [op |-> "_bfs_search", pc |-> "while",
                   start_node |-> start_node, goal_type |-> goal_type,
                   max_steps |-> max_steps,
                   queue |-> <<[node |-> start_node, depth |-> 0, path |-> <<>>]>>,
                   visited |-> {}, results |-> <<>>, expanded |-> <<>>]
    /\ BfsFrame

\* "if depth > max_steps or current in visited" without the visited test
BfsSkipsByDepthOnly(depth, max_steps, current, visited) == depth > max_steps

\* "if depth > max_steps or current in visited: continue"
BfsSkips(depth, max_steps, current, visited) == depth > max_steps \/ current \in visited

\* One iteration of "while queue and len(results) < 10"
BfsStep ==
    /\ search.op = "_bfs_search" /\ search.pc = "while"
    /\ search.queue # <<>> /\ BfsMayContinue(search.results)
    /\ LET current == Head(search.queue).node
           depth == Head(search.queue).depth
           path == Head(search.queue).path
           visited1 == search.visited \cup {current}
       IN  search' =
             IF BfsSkips(depth, search.max_steps, current, search.visited)
             THEN [search EXCEPT !.queue = Tail(@)]
             ELSE [search EXCEPT
                     !.visited = visited1,
                     !.expanded = Append(@, current),
                     !.results =
                         IF /\ Get(graph.attrs[current], "type", "") = search.goal_type
                            /\ current # search.start_node
                         THEN Append(@, [node_id |-> current,
                                         path |-> Append(path, current),
                                         depth |-> depth,
                                         method |-> "bfs",
                                         composite_score |-> (10 * WalkDen) \div (depth + 1)])
                         ELSE @,
                     !.queue = EnqueueNeighbors(Tail(@), Neighbors(graph, current), 1,
                                                visited1, depth, Append(path, current))]
    /\ BfsFrame

\* The loop condition fails: return results
BfsReturn ==
    /\ search.op = "_bfs_search" /\ search.pc = "while"
    /\ ~(search.queue # <<>> /\ BfsMayContinue(search.results))
    /\ search' = [search EXCEPT !.pc = "done"]
    /\ BfsFrame

NextBfs == BfsStart \/ BfsStep \/ BfsReturn

SpecBfs == InitBfs /\ [][NextBfs]_vars

\* The call runs to its return without being suspended: it has no await
SpecBfsLive == SpecBfs /\ WF_vars(BfsStep) /\ WF_vars(BfsReturn)

BfsReturned == search.op = "_bfs_search" /\ search.pc = "done"

\* The loop and the recursive definition used by reasoning_walk agree
BfsStepsAgreeWithLoop ==
    BfsReturned =>
        search.results = bfs_search(graph, search.start_node, search.goal_type,
                                    search.max_steps).results


\* path is a directed path of the graph from the start node to node_id
IsPathTo(path, start_node, node_id) ==
    /\ path # <<>>
    /\ path[1] = start_node
    /\ path[Len(path)] = node_id
    /\ \A i \in 1..(Len(path) - 1) : HasEdge(graph, path[i], path[i + 1])

\* C23: every result of _bfs_search is a goal-type node other than the
\* start node; its depth is the least number of edges of a directed path
\* from the start node, its path is such a path with depth edges, and its
\* composite_score is 1 / (depth + 1).
C23_BfsResultsAreNearestGoals ==
    search.op = "_bfs_search" =>
        \A i \in DOMAIN search.results :
            \E r \in {search.results[i]} :
                /\ graph.attrs[r.node_id]["type"] = search.goal_type
                /\ r.node_id # search.start_node
                /\ r.depth = ShortestPathLength(graph, search.start_node, r.node_id)
                /\ IsPathTo(r.path, search.start_node, r.node_id)
                /\ Len(r.path) = r.depth + 1
                /\ r.composite_score * (r.depth + 1) = 10 * WalkDen

\* A returned search on a graph where the goal node c has a path of two
\* edges and a path of one edge from the start node
C23_Witness ==
    /\ BfsReturned
    /\ search.start_node = "a"
    /\ search.max_steps = 2
    /\ graph.edges = << <<"a", "b">>, <<"a", "c">>, <<"b", "c">> >>
    /\ \E i \in DOMAIN search.results :
          search.results[i].node_id = "c" /\ search.results[i].path = <<"a", "c">>


NoRepeats(l) == \A i \in DOMAIN l, j \in DOMAIN l : i # j => l[i] # l[j]

BfsWithinLimits ==
    search.op = "_bfs_search" =>
        /\ NoRepeats(search.expanded)
        /\ NoRepeats([i \in DOMAIN search.results |-> search.results[i].node_id])
        /\ Len(search.results) <= 10
        /\ \A i \in DOMAIN search.results : search.results[i].depth <= search.max_steps

InitPaths ==
    /\ \E n \in 0..Len(WalkNodeOrder) :
       \E types \in [NodesUpTo(n) -> NodeTypes], E \in SearchEdgeSets(n) :
           \E w \in [E -> EdgeWeights] : graph = BuiltGraph(n, types, E, w)
    /\ inserted = Range(graph.nodes)
    /\ clock = 0
    /\ last_call = NoCall
    /\ walk_call = NoCall
    /\ retrieve_call = NoCall
    /\ FuseIdle
    /\ OthersIdle

\* The call reads the graph and changes nothing, so one call is observed
ShortestPathSearch ==
    /\ search = NoCall
    /\ \E start_node \in Range(graph.nodes), goal_type \in NodeTypes,
          max_steps \in 0..MaxSteps :
        search' = [op |-> "_shortest_path_search", pc |-> "done",
                   start_node |-> start_node, goal_type |-> goal_type,
                   max_steps |-> max_steps,
                   results |-> shortest_path_search(graph, start_node, goal_type, max_steps)]
    /\ BfsFrame

NextPaths == ShortestPathSearch

SpecPaths == InitPaths /\ [][NextPaths]_vars

PathSearched == search.op = "_shortest_path_search"

\* The least total weight of a directed path from the start node to g
LeastWeight(g) ==
    CHOOSE w \in {PathWeight(graph, p) : p \in PathsFrom(graph, <<search.start_node>>, g)} :
        \A p \in PathsFrom(graph, <<search.start_node>>, g) : w <= PathWeight(graph, p)

\* C25: _shortest_path_search returns one entry for every goal-type node
\* whose path of least total weight from the start node has at most
\* max_steps edges, and no other entry; the entry's path is that path and
\* its composite_score is the path's weight divided by its number of nodes.
C25_LeastWeightPathWithinSteps ==
    PathSearched =>
        \E results \in {search.results} :
            /\ \A i \in DOMAIN results :
                  \E r \in {results[i]} :
                      /\ graph.attrs[r.node_id]["type"] = search.goal_type
                      /\ r.path \in PathsFrom(graph, <<search.start_node>>, r.node_id)
                      /\ PathWeight(graph, r.path) = LeastWeight(r.node_id)
                      /\ Len(r.path) - 1 <= search.max_steps
                      /\ r.path_weight = PathWeight(graph, r.path)
                      /\ r.composite_score * Len(r.path) = r.path_weight * WalkDen
            /\ \A g \in Range(graph.nodes) :
                  (/\ graph.attrs[g]["type"] = search.goal_type
                   /\ \E p \in PathsFrom(graph, <<search.start_node>>, g) :
                         /\ PathWeight(graph, p) = LeastWeight(g)
                         /\ Len(p) - 1 <= search.max_steps)
                  => \E i \in DOMAIN results : results[i].node_id = g
            /\ NoRepeats([i \in DOMAIN results |-> results[i].node_id])

\* A search with max_steps = 1 for a goal node that is one edge of weight
\* 0.5 away and two edges of total weight 0.4 away: the node is dropped
C25_Witness ==
    /\ PathSearched
    /\ search.start_node = "a"
    /\ search.max_steps = 1
    /\ graph.edges = << <<"a", "b">>, <<"a", "c">>, <<"b", "c">> >>
    /\ PathWeight(graph, <<"a", "b", "c">>) = 4
    /\ PathWeight(graph, <<"a", "c">>) = 5
    /\ graph.attrs["c"]["type"] = search.goal_type
    /\ \A i \in DOMAIN search.results : search.results[i].node_id # "c"


(***************************************************************************)
(* SpecLoop: the request handlers and background tasks of the service as   *)
(* coroutines on its one asyncio event loop.  A coroutine that was resumed *)
(* runs until it awaits something that suspends it or returns; only then   *)
(* can the loop resume another one.  The graph insertions are made one     *)
(* add_node / add_edge call per step.                                      *)
(***************************************************************************)
Tasks == {"ingest1", "ingest2", "conversation", "search"}

WritePcs == {"file_node", "dep_node", "dep_edge", "conv_node", "auto_link"}

InitLoop ==
    /\ GraphIdle
    /\ FuseIdle
    /\ walk_call = NoCall
    /\ retrieve_call = NoCall
    /\ search = NoCall /\ grok = NoCall /\ vad = NoCall
    /\ \E deps1 \in DependencyLists, deps2 \in DependencyLists, utterance \in Contents :
        loop = [running |-> "none",
                writes |-> <<>>,
                tasks |-> [t \in Tasks |->
                    CASE t = "ingest1" ->
                           [kind |-> "add_to_graph_memory", pc |-> "pending",
                            file_path |-> "m.py", deps |-> deps1]
                      [] t = "ingest2" ->
                           [kind |-> "add_to_graph_memory", pc |-> "pending",
                            file_path |-> "m.py", deps |-> deps2]
                      [] t = "conversation" ->
                           [kind |-> "add_conversation", pc |-> "pending",
                            utterance |-> utterance, conv_id |-> "", i |-> 1]
                      [] OTHER ->
                           [kind |-> "search", pc |-> "pending"]]]

LoopFrame == UNCHANGED <<fuse_vars, last_call, walk_call, retrieve_call,
                         search, grok, vad>>

\* A suspension point after every step of a coroutine
SuspendsAtEveryStep(kind, pc) == TRUE

\* Whether the coroutine gives the loop back when it reaches pc: none of
\* add_to_graph_memory, add_conversation and search awaits anything that
\* suspends (search awaits hybrid_retrieve, which has no await of its own)
Suspends(kind, pc) == FALSE

FirstPc(kind) ==
    CASE kind = "add_to_graph_memory" -> "file_node"
      [] kind = "add_conversation" -> "vector_add"
      [] OTHER -> "retrieve"

\* The step of task t took it to pc
Advance(t, pc, wrote) ==
    [loop EXCEPT !.tasks[t].pc = pc,
                 !.writes = IF wrote THEN Append(@, t) ELSE @,
                 !.running = IF pc = "done" \/ Suspends(loop.tasks[t].kind, pc)
                             THEN "none" ELSE t]

\* The event loop starts or resumes a coroutine
Resume ==
    /\ loop.running = "none"
    /\ \E t \in Tasks :
        /\ loop.tasks[t].pc # "done"
        /\ loop' = [loop EXCEPT !.running = t,
                                !.tasks[t].pc = IF @ = "pending"
                                                THEN FirstPc(loop.tasks[t].kind) ELSE @]
    /\ clock' = clock + 1
    /\ UNCHANGED <<graph, inserted>>
    /\ LoopFrame

\* add_to_graph_memory -> add_code_file: the next add_node or add_edge
IngestStep ==
    /\ loop.running \in {"ingest1", "ingest2"}
    /\ LET t == loop.running
           task == loop.tasks[t]
           file_id == FileId(task.file_path)
       IN  CASE task.pc = "file_node" ->
                  /\ graph' = add_node(graph, file_id, "document", <<"alpha", "beta">>,
                                       clock).graph
                  /\ loop' = Advance(t, IF task.deps = <<>> THEN "done" ELSE "dep_node", TRUE)
             [] task.pc = "dep_node" ->
                  /\ graph' = IF ~HasNode(graph, DepId(Head(task.deps)))
                              THEN add_node(graph, DepId(Head(task.deps)), Head(task.deps)[1],
                                            <<Head(task.deps)[2]>>, clock).graph
                              ELSE graph
                  /\ loop' = Advance(t, "dep_edge", ~HasNode(graph, DepId(Head(task.deps))))
             [] OTHER ->
                  /\ graph' = add_edge(graph, file_id, DepId(Head(task.deps)), "dependency",
                                       10, clock).graph
                  /\ loop' = [Advance(t, IF Tail(task.deps) = <<>> THEN "done" ELSE "dep_node",
                                      TRUE)
                                EXCEPT !.tasks[t].deps = Tail(@)]
    /\ inserted' = Range(graph'.nodes)
    /\ UNCHANGED clock
    /\ LoopFrame

\* add_conversation: vector_manager.add_conversation, then
\* add_conversation_context: add_node and the add_edge calls of
\* _auto_link_conversation
ConversationStep ==
    /\ loop.running = "conversation"
    /\ LET t == loop.running
           task == loop.tasks[t]
       IN  CASE task.pc = "vector_add" ->
                  /\ graph' = graph
                  /\ loop' = Advance(t, "conv_node", FALSE)
             [] task.pc = "conv_node" ->
                  /\ graph' = add_node(graph, ConvId("p0", clock), "conversation",
                                       task.utterance, clock).graph
                  /\ loop' = [Advance(t, "auto_link", TRUE)
                                EXCEPT !.tasks[t].conv_id = ConvId("p0", clock)]
             [] OTHER ->
                  LET node_id == graph.nodes[task.i]
                      matches == Matches(task.utterance,
                                         Get(graph.attrs[node_id], "content", <<>>))
                  IN  /\ graph' = IF matches >= 2
                                  THEN add_edge(graph, task.conv_id, node_id, "conversation",
                                                (10 * matches) \div Len(task.utterance),
                                                clock).graph
                                  ELSE graph
                      /\ loop' = [Advance(t, IF task.i = Len(graph.nodes) THEN "done"
                                             ELSE "auto_link", matches >= 2)
                                    EXCEPT !.tasks[t].i = @ + 1]
    /\ inserted' = Range(graph'.nodes)
    /\ UNCHANGED clock
    /\ LoopFrame

\* search -> hybrid_retrieve: reads the graph
SearchStep ==
    /\ loop.running = "search"
    /\ loop' = Advance("search", "done", FALSE)
    /\ UNCHANGED <<graph, inserted, clock>>
    /\ LoopFrame

NextLoop == Resume \/ IngestStep \/ ConversationStep \/ SearchStep

SpecLoop == InitLoop /\ [][NextLoop]_vars

\* The tasks that have begun a graph insertion and not finished it
Inserting == {t \in Tasks : loop.tasks[t].pc \in WritePcs}

\* C26: under every interleaving of the ingestion tasks, the conversation
\* handler and the search handler, at most one graph insertion is in
\* progress, and the add_node / add_edge calls of one insertion are not
\* separated by a call of another insertion.
C26_GraphWritesExclusive ==
    loop # NoCall =>
        /\ Cardinality(Inserting) <= 1
        /\ \A i \in DOMAIN loop.writes, j \in DOMAIN loop.writes, k \in DOMAIN loop.writes :
              (i < j /\ j < k /\ loop.writes[i] = loop.writes[k])
                  => loop.writes[j] = loop.writes[i]

\* All tasks ran, three of them wrote to the graph, one of them the file
\* node and two dependencies
C26_Witness ==
    /\ loop # NoCall
    /\ \A t \in Tasks : loop.tasks[t].pc = "done"
    /\ Range(loop.writes) = {"ingest1", "ingest2", "conversation"}
    /\ Cardinality({i \in DOMAIN loop.writes : loop.writes[i] = "ingest2"}) = 5
    /\ loop.writes[1] = "conversation"


(***************************************************************************)
(* SpecGrok: a GrokAPIClient and its chat_completion calls, one HTTP       *)
(* attempt per step.  grok holds api_keys and rate_limits (their keys in   *)
(* dict order, and the request counters), current_key, the position of the *)
(* call in progress, the key whose credential is in its headers, and the   *)
(* history of the requests sent.  All calls fall within one minute, so no  *)
(* request counter is reset.                                               *)
(***************************************************************************)
MaxChatCalls == 2            \* chat_completion calls made on one client
MAX_RETRIES == 3
MAX_REQUESTS_PER_MINUTE == 50

KeyOrder == <<"code_fast", "general", "backup_1">>
NoKey == "None"
HttpOutcomes == {"200", "429", "401", "500", "timeout"}

Without1(keys, key) == SelectSeq(keys, LAMBDA x : x # key)

IndexOf(keys, key) == CHOOSE i \in DOMAIN keys : keys[i] = key

\* _should_rotate_key(key)
should_rotate_key(g, key) ==
    IF g.demo_mode THEN FALSE ELSE g.requests[key] >= MAX_REQUESTS_PER_MINUTE

\* The candidates of "for i in range(1, len(keys))" that are not rate limited
RotationCandidates(g, keys, current_index) ==
    SelectSeq([i \in 1..(Len(keys) - 1) |-> keys[((current_index - 1 + i) % Len(keys)) + 1]],
              LAMBDA k : ~should_rotate_key(g, k))

\* _rotate_key(): keys.index(current_key) raises ValueError for a key that
\* is no longer in api_keys; the fallback takes the key of rate_limits with
\* the least reset_time, which is its first key
rotate_key(g) ==
    IF g.demo_mode THEN [g |-> g, exc |-> NoExc]
    ELSE IF g.current_key \notin Range(g.api_keys) THEN [g |-> g, exc |-> "ValueError"]
    ELSE LET free == RotationCandidates(g, g.api_keys, IndexOf(g.api_keys, g.current_key))
         IN  [g |-> [g EXCEPT !.current_key = IF free # <<>> THEN free[1]
                                               ELSE g.rate_keys[1]],
              exc |-> NoExc]

\* __init__ with the keys found in the environment; the counters are those
\* of a client that has served requests in the current minute
InitGrok ==
    /\ GraphIdle
    /\ FuseIdle
    /\ walk_call = NoCall
    /\ retrieve_call = NoCall
    /\ search = NoCall /\ loop = NoCall /\ vad = NoCall
    /\ \E present \in SUBSET Range(KeyOrder) :
        \E requests \in [present -> {0, MAX_REQUESTS_PER_MINUTE - 1}] :
            LET keys == SelectSeq(KeyOrder, LAMBDA k : k \in present) IN
            grok = [demo_mode |-> keys = <<>>,
                    api_keys |-> keys,
                    rate_keys |-> keys,
                    requests |-> requests,
                    current_key |-> IF keys = <<>> THEN NoKey ELSE keys[1],
                    pc |-> "idle", calls |-> 0, attempt |-> 0, header_key |-> NoKey,
                    sent |-> <<>>, ret |-> "none"]

GrokFrame == UNCHANGED <<fuse_vars, graph_vars, walk_call, retrieve_call, search, loop, vad>>

Returned(g, ret) == [g EXCEPT !.pc = "idle", !.ret = ret]

\* chat_completion up to the prepared headers
ChatStart ==
    /\ grok # NoCall /\ grok.pc = "idle" /\ grok.calls < MaxChatCalls
    /\ \E task_type \in {"general", "code"}, cached \in BOOLEAN :
        LET g0 == [grok EXCEPT !.calls = @ + 1]
            g1 == IF /\ task_type = "code"
                     /\ g0.current_key # "code_fast"
                     /\ "code_fast" \in Range(g0.api_keys)
                  THEN [g0 EXCEPT !.current_key = "code_fast"]
                  ELSE g0
            rotated == IF g1.api_keys # <<>> /\ should_rotate_key(g1, g1.current_key)
                       THEN rotate_key(g1)
                       ELSE [g |-> g1, exc |-> NoExc]
        IN  grok' =
              IF g0.demo_mode THEN Returned(g0, "demo")
              ELSE IF cached THEN Returned(g0, "cached")
              ELSE IF g1.api_keys = <<>> THEN Returned(g1, "error")
              ELSE IF rotated.exc # NoExc THEN Returned(rotated.g, "error")
              ELSE IF rotated.g.current_key \notin Range(rotated.g.api_keys)
              THEN Returned(rotated.g, "error")
              ELSE [rotated.g EXCEPT !.pc = "attempt", !.attempt = 0,
                                     !.header_key = rotated.g.current_key]
    /\ GrokFrame

\* The handling of a response status inside the retry loop; an exception
\* raised here is caught by the loop's "except Exception" and the loop
\* continues
HandleStatus(g, status) ==
    CASE status = "429" -> rotate_key(g).g
      [] status = "401" ->
           IF g.current_key \in Range(g.api_keys)
           THEN rotate_key([g EXCEPT !.api_keys = Without1(@, g.current_key)]).g
           ELSE g
      [] OTHER -> g

\* One iteration of "for attempt in range(max_retries)"
ChatAttempt ==
    /\ grok # NoCall /\ grok.pc = "attempt" /\ grok.attempt < MAX_RETRIES
    /\ \E outcome \in HttpOutcomes :
        LET g0 == [grok EXCEPT
                      !.sent = Append(@, [call |-> grok.calls, attempt |-> grok.attempt,
                                          credential |-> grok.header_key,
                                          current_key |-> grok.current_key])]
            g1 == IF outcome = "timeout" THEN g0
                  ELSE [g0 EXCEPT !.requests[g0.current_key] = @ + 1]
        IN  grok' =
              IF outcome = "200" THEN Returned(g1, "response")
              ELSE [HandleStatus(g1, outcome) EXCEPT !.attempt = @ + 1]
    /\ GrokFrame

\* raise Exception("All attempts failed"), returned as the error record
ChatGiveUp ==
    /\ grok # NoCall /\ grok.pc = "attempt" /\ grok.attempt = MAX_RETRIES
    /\ grok' = Returned(grok, "error")
    /\ GrokFrame

NextGrok == ChatStart \/ ChatAttempt \/ ChatGiveUp

SpecGrok == InitGrok /\ [][NextGrok]_vars

\* C28: between chat_completion calls, whenever api_keys is non-empty
\* current_key is one of its keys.
C28_CurrentKeyIsPresent ==
    (grok # NoCall /\ grok.pc = "idle" /\ grok.api_keys # <<>>) =>
        grok.current_key \in Range(grok.api_keys)

\* C29: within one call, a retry that follows a rotation to another key
\* is sent with the credential of the key that is then current.
C29_RetryUsesRotatedKey ==
    grok # NoCall =>
        \A i \in 1..(Len(grok.sent) - 1) :
            (/\ grok.sent[i].call = grok.sent[i + 1].call
             /\ grok.sent[i].current_key # grok.sent[i + 1].current_key)
            => grok.sent[i + 1].credential = grok.sent[i + 1].current_key


(***************************************************************************)
(* SpecVad: a VoiceActivityDetector fed audio chunks.  A chunk is given by *)
(* its RMS level; the noise floor and the levels are small integers.       *)
(* silence_duration is kept in samples (it grows by chunk_size per chunk   *)
(* and is compared with max_silence_duration * sample_rate).  The          *)
(* callbacks are those of VoiceServiceAPI, which raise nothing.            *)
(***************************************************************************)
MaxChunks == 34              \* chunks given to one detector
SAMPLE_RATE == 16000
CHUNK_SIZE == 1024
MAX_SILENCE_DURATION == 1    \* seconds
NOISE_FLOOR_MULTIPLIER == 2
SPEECH_THRESHOLD_MULTIPLIER == 3

NoiseFloors == {0, 1}
RmsLevels == 0..4
EndEvents == {"speech_end", "segment_ready"}

\* process_audio_chunk returning None
NoEvent == "None"

\* __init__
InitVad ==
    /\ GraphIdle
    /\ FuseIdle
    /\ walk_call = NoCall
    /\ retrieve_call = NoCall
    /\ search = NoCall /\ loop = NoCall /\ grok = NoCall
    /\ vad = [thresholds |-> None,
              is_speech_active |-> FALSE, speech_start_time |-> None,
              silence_duration |-> 0, segments |-> 0,
              chunks |-> 0, quiet_run |-> 0, events |-> <<>>,
              last |-> [ret |-> NoEvent, was_active |-> FALSE, calibrated |-> FALSE,
                        quiet_run |-> 0]]

VadFrame == UNCHANGED <<fuse_vars, graph_vars, walk_call, retrieve_call, search, loop, grok>>

\* calibrate_noise_floor with mean_rms measured, at the start of a capture or
\* on request while the detector runs; thresholds holds
\* speech_threshold and silence_threshold, None until they are set
CalibrateNoiseFloor ==
    /\ vad # NoCall
    /\ \E mean_rms \in NoiseFloors :
        vad' = [vad EXCEPT !.thresholds =
                   [speech_threshold |-> mean_rms * SPEECH_THRESHOLD_MULTIPLIER,
                    silence_threshold |-> mean_rms * NOISE_FLOOR_MULTIPLIER]]
    /\ VadFrame

\* The silence counter kept when a chunk is not below the silence threshold
StillInSpeechKeeps(silence_duration) == silence_duration

\* "Still in speech, reset silence counter"
StillInSpeech(silence_duration) == 0

\* process_audio_chunk(audio_data) on detector v, for a chunk of level rms;
\* long tells whether min_speech_duration has passed since speech_start_time,
\* which is recorded as the chunk that started the speech.
\* The detector after the call and the value returned.
process_audio_chunk(v, rms, long) ==
    IF v.thresholds = None THEN [v |-> v, ret |-> NoEvent]
    ELSE IF ~v.is_speech_active
    THEN IF rms > v.thresholds.speech_threshold
         THEN [v |-> [v EXCEPT !.is_speech_active = TRUE, !.speech_start_time = [chunk |-> v.chunks],
                               !.silence_duration = 0],
               ret |-> "speech_start"]
         ELSE [v |-> v, ret |-> NoEvent]
    ELSE IF rms < v.thresholds.silence_threshold
    THEN LET silence == v.silence_duration + CHUNK_SIZE IN
         IF silence >= MAX_SILENCE_DURATION * SAMPLE_RATE
         THEN [v |-> [v EXCEPT !.is_speech_active = FALSE, !.speech_start_time = None,
                               !.silence_duration = 0,
                               !.segments = IF long THEN @ + 1 ELSE @],
               ret |-> IF long THEN "segment_ready" ELSE "speech_end"]
         ELSE [v |-> [v EXCEPT !.silence_duration = silence], ret |-> NoEvent]
    ELSE [v |-> [v EXCEPT !.silence_duration = StillInSpeech(@)], ret |-> NoEvent]

\* One chunk from the audio stream; chunks, quiet_run, events and last are
\* history
ProcessAudioChunk ==
    /\ vad # NoCall /\ vad.chunks < MaxChunks
    /\ \E rms \in RmsLevels, long \in BOOLEAN :
        \E r \in {process_audio_chunk(vad, rms, long)} :
            vad' = [r.v EXCEPT
                      !.chunks = @ + 1,
                      !.quiet_run = IF /\ vad.is_speech_active /\ r.v.is_speech_active
                                       /\ rms < vad.thresholds.silence_threshold
                                    THEN @ + 1 ELSE 0,
                      !.events = IF r.ret = NoEvent THEN @ ELSE Append(@, r.ret),
                      !.last = [ret |-> r.ret, was_active |-> vad.is_speech_active,
                                calibrated |-> vad.thresholds # None,
                                quiet_run |-> IF /\ vad.is_speech_active
                                                 /\ rms < vad.thresholds.silence_threshold
                                              THEN vad.quiet_run + 1 ELSE 0]]
    /\ VadFrame

NextVad == CalibrateNoiseFloor \/ ProcessAudioChunk

SpecVad == InitVad /\ [][NextVad]_vars


\* What the event returned by the last chunk says about the detector
VadEventsSound ==
    /\ vad.last.ret = "speech_start" =>
           ~vad.last.was_active /\ vad.is_speech_active
    /\ vad.last.ret \in EndEvents =>
           /\ vad.last.was_active /\ ~vad.is_speech_active
           /\ vad.speech_start_time = None /\ vad.silence_duration = 0
           /\ vad.last.quiet_run * CHUNK_SIZE >= MAX_SILENCE_DURATION * SAMPLE_RATE
    /\ \A i \in 1..Len(vad.events) :
           IF i % 2 = 1 THEN vad.events[i] = "speech_start" ELSE vad.events[i] \in EndEvents
    /\ ~vad.last.calibrated => vad.last.ret = NoEvent

\* A chunk given to an uncalibrated detector changes nothing of the detector
UncalibratedChunkIgnored ==
    (vad.thresholds = None /\ vad'.chunks = vad.chunks + 1) =>
        /\ vad'.last.ret = NoEvent
        /\ vad'.thresholds = None
        /\ vad'.is_speech_active = vad.is_speech_active
        /\ vad'.speech_start_time = vad.speech_start_time
        /\ vad'.silence_duration = vad.silence_duration
        /\ vad'.segments = vad.segments

\* C30: process_audio_chunk returns 'speech_start' only from an inactive
\* detector, which it makes active; it returns 'speech_end' or
\* 'segment_ready' only from an active detector, which it makes inactive with
\* speech_start_time cleared and silence_duration 0, and only when the
\* consecutive chunks below the silence threshold amount to
\* max_silence_duration; start and end events alternate, a start first; an
\* uncalibrated detector returns None and keeps its state.
C30_VadEventsAlternate == []VadEventsSound /\ [][UncalibratedChunkIgnored]_vars

\* Two utterances: one long enough for a segment, then a short one, each
\* ended by a full second of silence
C30_Witness ==
    /\ vad # NoCall
    /\ vad.events = <<"speech_start", "segment_ready", "speech_start", "speech_end">>
    /\ vad.last.ret = "speech_end"
    /\ vad.segments = 1


==============================================================================
